---------------------------- MODULE Spec2Model ----------------------------
(***************************************************************************)
(* Model of the habit report engine of WAVI-AI:                            *)
(*   src/app/main.py              the FastAPI handlers (called "app")      *)
(*   src/api/generate_report.py   the batch script   (called "script")     *)
(*   src/api/fast_api/app.py      the older API with its own log filter    *)
(*                                                                         *)
(* Representation of Python values:                                        *)
(*   - a habit id is a string; "none" is Python's None / a missing key;    *)
(*   - a name is a string; "" stands for both "" and None, which the code  *)
(*     merges with `(x or "")`;                                            *)
(*   - a time string is the tuple of its colon-separated numeric fields:   *)
(*     "09:00" is <<9, 0>>, "09:00:00" is <<9, 0, 0>>, None/"" is <<>>;    *)
(*   - a reply text is a sequence of tokens (see the extractor section).   *)
(***************************************************************************)
EXTENDS Integers, Sequences, FiniteSets, TLC

VARIABLES
    active_habits,  \* the ordered ActiveHabit list of the run
    parsed,         \* parsed["recommendation"] of the reply, as a tagged value
    pc,             \* position of the run
    outcome,        \* what the run hands to its caller
    rerun,          \* the Reconciler applied a second time, to its own output
    text,           \* raw reply text given to the extractor
    json_text,      \* what extract_json_safely returned
    obj,            \* a JSON object text and the padding used to fence it
    fenced,         \* what the extractor returned for each way of fencing obj
    habits_all,     \* the caller's habits, before filtering
    period,         \* the report window
    filtered,       \* what the Time-Window Filter returned
    heap,           \* the habit dicts in memory, by address
    stats,          \* what build_prompt aggregated
    reply,          \* the reply's other keys (top_failure_reasons, ...)
    report,         \* those keys in the report the caller gets
    failure,        \* a habit's classified failure reasons and its top ones
    bundles,        \* the user bundles of a batch, or of the requests in flight
    results,        \* the entries the batch has produced so far
    calls,          \* the users the external service was called for, in order
    cursor,         \* position of the batch loop
    runner,         \* which program runs the batch: "app" or "script"
    frames,         \* the local variables of each request in flight
    clock           \* the date datetime.today() returns

\* the variables of the aggregation, attachment and classification steps
\* the variables of the batch loop and of concurrent requests
world == <<bundles, results, calls, cursor, runner, frames, clock>>

rest == <<heap, stats, reply, report, failure, world>>

vars == <<active_habits, parsed, pc, outcome, rerun, text, json_text,
          obj, fenced, habits_all, period, filtered, rest>>

(***************************************************************************)
(* Bounds of the model.                                                    *)
(***************************************************************************)
MaxHabits == 2
MaxRecs == 2
MaxLen == 6
MaxObjInner == 6
MaxLogs == 2
MaxReasonLen == 3
MaxReasons == 2

NoneId == "none"

(***************************************************************************)
(* Small helpers on sequences.                                             *)
(***************************************************************************)
Range(s) == {s[i] : i \in 1..Len(s)}

SeqsUpTo(S, n) == UNION {[1..k -> S] : k \in 0..n}

Max2(a, b) == IF a >= b THEN a ELSE b

(***************************************************************************)
(* str.strip() and str.lower() on the names the model uses.                *)
(***************************************************************************)
StrStrip(s) ==
    CASE s = "Run " -> "Run"
      [] s = "run " -> "run"
      [] s = "RUN " -> "RUN"
      [] OTHER -> s

StrLower(s) ==
    CASE s = "Run" -> "run"
      [] s = "RUN" -> "run"
      [] s = "Run " -> "run "
      [] s = "RUN " -> "run "
      [] OTHER -> s

\* app (app/main.py:196,199):               (x or "").strip().lower()
\* script (api/generate_report.py:401,404):  (x or "").lower()
NormName(variant, s) ==
    IF variant = "app" THEN StrLower(StrStrip(s)) ELSE StrLower(s)

(***************************************************************************)
(* Time utilities  (api/generate_report.py:35-48).                         *)
(***************************************************************************)
\* datetime.strptime(s, "%H:%M") succeeds
ParsesHHMM(t) ==
    /\ Len(t) = 2
    /\ t[1] \in 0..23
    /\ t[2] \in 0..59

\* minute of the day of a parsed "HH:MM"
parse_hhmm(t) == t[1] * 60 + t[2]

\* max(int(delta.total_seconds() // 60), 0)
minutes_between(start_hhmm, end_hhmm) ==
    Max2(parse_hhmm(end_hhmm) - parse_hhmm(start_hhmm), 0)

\* (parse_hhmm(hhmm) + timedelta(minutes=d)).strftime("%H:%M"): the date may
\* roll over, the printed time of day wraps at 24:00
add_minutes(hhmm, delta_minutes) ==
    LET m == (parse_hhmm(hhmm) + delta_minutes) % 1440
    IN  <<m \div 60, m % 60>>

MinSession == 10
Shorten == 15
DefaultStart == <<0, 0>>
DefaultEnd == <<0, 30>>
\* stand-ins for the Korean literals of app/main.py:224
DefaultName == "habit"
LightMarker == " (light)"

(***************************************************************************)
(* Recommendation Reconciler                                               *)
(*   app:    _postprocess_recommendations   (app/main.py:177-232)          *)
(*   script: inline in main()               (api/generate_report.py:388-443)*)
(* A reply entry is [kind, habit_id, name, start_time, end_time,           *)
(* day_of_week, src]; kind "other" is a list element that is no object;    *)
(* src is the position the entry had in the reply (0: synthesized), which  *)
(* stands for the identity of the Python dict.                             *)
(***************************************************************************)
ValidIds(active) == [i \in 1..Len(active) |-> active[i].habit_id]

ValidIdSet(active) == Range(ValidIds(active))

\* a name search that keeps the last habit of that name instead of the first
MatchByName_last(rname, active, variant) ==
    LET hits == {i \in 1..Len(active) :
                    rname # "" /\ rname = NormName(variant, active[i].name)}
    IN  IF hits = {} THEN 0 ELSE CHOOSE i \in hits : \A j \in hits : i >= j

\* for hid, nm in name_by_id.items(): first habit, in ActiveHabit order,
\* whose normalised name equals rname; 0 when none
MatchByName(rname, active, variant) ==
    LET hits == {i \in 1..Len(active) :
                    rname # "" /\ rname = NormName(variant, active[i].name)}
    IN  IF hits = {} THEN 0 ELSE CHOOSE i \in hits : \A j \in hits : i <= j

\* step (1) on one entry
RepairOne(rec, active, variant) ==
    IF rec.habit_id \in ValidIdSet(active) THEN rec
    ELSE LET k == MatchByName(NormName(variant, rec.name), active, variant)
         IN  [rec EXCEPT !.habit_id =
                 IF k # 0 THEN active[k].habit_id ELSE active[1].habit_id]

\* step (1): the loop over recs
RepairIds(recs, active, variant) ==
    [i \in 1..Len(recs) |-> RepairOne(recs[i], active, variant)]

\* existing_by_id.keys(): the ids that have an entry after repair
ExistingIds(recs, active) ==
    {recs[i].habit_id : i \in 1..Len(recs)} \cap ValidIdSet(active)

\* a fallback that shortens by 15 minutes with no 10-minute floor
Synthesize_unfloored(src) ==
    LET st == IF src.start_time = <<>> THEN DefaultStart ELSE src.start_time
        et == IF src.end_time = <<>> THEN DefaultEnd ELSE src.end_time
        new_end ==
            IF ParsesHHMM(st) /\ ParsesHHMM(et)
            THEN add_minutes(st, minutes_between(st, et) - Shorten)
            ELSE et
    IN  [kind |-> "obj",
         habit_id |-> src.habit_id,
         name |-> (IF src.name = "" THEN DefaultName ELSE src.name) \o LightMarker,
         start_time |-> st,
         end_time |-> new_end,
         day_of_week |-> src.day_of_week,
         src |-> 0]

\* the fallback entry for habit src
Synthesize(src) ==
    LET st == IF src.start_time = <<>> THEN DefaultStart ELSE src.start_time
        et == IF src.end_time = <<>> THEN DefaultEnd ELSE src.end_time
        new_end ==
            IF ParsesHHMM(st) /\ ParsesHHMM(et)
            THEN add_minutes(st, Max2(MinSession, minutes_between(st, et) - Shorten))
            ELSE et
    IN  [kind |-> "obj",
         habit_id |-> src.habit_id,
         name |-> (IF src.name = "" THEN DefaultName ELSE src.name) \o LightMarker,
         start_time |-> st,
         end_time |-> new_end,
         day_of_week |-> src.day_of_week,
         src |-> 0]

\* for hid in valid_ids[k..]: append a fallback when hid is not in existing
RECURSIVE AppendFrom(_, _, _, _)
AppendFrom(recs, existing, active, k) ==
    IF k > Len(active) THEN recs
    ELSE IF active[k].habit_id \in existing
         THEN AppendFrom(recs, existing, active, k + 1)
         ELSE AppendFrom(Append(recs, Synthesize(active[k])),
                         existing, active, k + 1)

\* a Reconciler that forgets step (2)
AppendMissing_skipped(recs, active) == recs

\* step (2): existing_by_id is built once, then every valid id without an
\* entry gets a fallback appended
AppendMissing(recs, active) ==
    AppendFrom(recs, ExistingIds(recs, active), active, 1)

\* a search that returns the last entry of the id instead of the first
FirstWithId_last(recs, hid) ==
    LET hits == {i \in 1..Len(recs) : recs[i].habit_id = hid}
    IN  IF hits = {} THEN 0 ELSE CHOOSE i \in hits : \A j \in hits : i >= j

\* next((r for r in recs if r.get("habit_id") == hid), None); 0 is None
FirstWithId(recs, hid) ==
    LET hits == {i \in 1..Len(recs) : recs[i].habit_id = hid}
    IN  IF hits = {} THEN 0 ELSE CHOOSE i \in hits : \A j \in hits : i <= j

RECURSIVE EmitFrom(_, _, _)
EmitFrom(recs, active, k) ==
    IF k > Len(active) THEN <<>>
    ELSE LET i == FirstWithId(recs, active[k].habit_id)
         IN  (IF i # 0 THEN <<recs[i]>> ELSE <<>>)
             \o EmitFrom(recs, active, k + 1)

\* a Reconciler that keeps the first entry of each id but in the reply's order
EmitInOrder_unsorted(recs, active) ==
    LET keep == {i \in 1..Len(recs) :
                    /\ recs[i].habit_id \in ValidIdSet(active)
                    /\ FirstWithId(recs, recs[i].habit_id) = i}
        F[i \in 0..Len(recs)] ==
            IF i = 0 THEN <<>>
            ELSE IF i \in keep THEN Append(F[i - 1], recs[i]) ELSE F[i - 1]
    IN  F[Len(recs)]

\* a Reconciler that extends the list it was given instead of replacing it
EmitInOrder_extending(recs, active) == recs \o EmitFrom(recs, active, 1)

\* step (3): one entry per valid id, in ActiveHabit order, the first found
EmitInOrder(recs, active) == EmitFrom(recs, active, 1)

\* parsed.get("recommendation", []) ; not a list -> []
RecsOf(v) == IF v.kind = "list" THEN v.items ELSE <<>>

\* rec.get(...) on a list element that is no dict raises AttributeError
RaisesOnEntries(recs) == \E i \in 1..Len(recs) : recs[i].kind # "obj"

\* the whole Reconciler: [raised, recommendation]
Reconcile(v, active, variant) ==
    LET recs == RecsOf(v)
    IN  IF RaisesOnEntries(recs)
        THEN [raised |-> TRUE, recommendation |-> <<>>]
        ELSE [raised |-> FALSE,
              recommendation |->
                  EmitInOrder(
                      AppendMissing(RepairIds(recs, active, variant), active),
                      active)]

\* _normalize_parsed_fields (app/main.py:278-280): a bare object becomes a
\* one-element list
NormalizeParsedFields(v) ==
    IF v.kind = "dict" THEN [kind |-> "list", items |-> v.items] ELSE v

(***************************************************************************)
(* Response Extractor: extract_json_safely (api/generate_report.py:294-327)*)
(* A text is a sequence of tokens: "F" is a code fence (three backticks),  *)
(* "J" the word json, "W" one whitespace character, "{" and "}" the        *)
(* braces, "q" a double quote and "x" any other character.  A Python value *)
(* is [type, chars]: type "str" for a string, anything else for a value    *)
(* that is no string.                                                      *)
(***************************************************************************)
StrValue(chars) == [type |-> "str", chars |-> chars]

NoneValue == [type |-> "NoneType", chars |-> <<>>]

RECURSIVE LStrip(_)
LStrip(s) == IF s # <<>> /\ Head(s) = "W" THEN LStrip(Tail(s)) ELSE s

RECURSIVE RStrip(_)
RStrip(s) ==
    IF s # <<>> /\ s[Len(s)] = "W" THEN RStrip(SubSeq(s, 1, Len(s) - 1)) ELSE s

\* str.strip()
Strip(s) == RStrip(LStrip(s))

\* \s* : the first index from i on that holds no whitespace (Len+1: the end)
RECURSIVE SkipWs(_, _)
SkipWs(s, i) == IF i <= Len(s) /\ s[i] = "W" THEN SkipWs(s, i + 1) ELSE i

\* the lazy  .*?\}\s*```  : the least e from i on with a "}" at e that only
\* whitespace separates from a fence; 0 when there is none
RECURSIVE LazyClose(_, _)
LazyClose(s, i) ==
    IF i > Len(s) THEN 0
    ELSE IF s[i] = "}" /\ SkipWs(s, i + 1) <= Len(s)
                       /\ s[SkipWs(s, i + 1)] = "F"
         THEN i
         ELSE LazyClose(s, i + 1)

\* the regex tried at position i: <<b, e>>, the bounds of group 1, or <<>>
\*   labelled:  ```json\s*(\{.*?\})\s*```      else:  ```\s*(\{.*?\})\s*```
FenceMatchAt(s, i, labelled) ==
    IF s[i] # "F" THEN <<>>
    ELSE IF labelled /\ ~(i + 1 <= Len(s) /\ s[i + 1] = "J") THEN <<>>
    ELSE LET b == SkipWs(s, IF labelled THEN i + 2 ELSE i + 1)
         IN  IF b > Len(s) \/ s[b] # "{" THEN <<>>
             ELSE LET e == LazyClose(s, b + 1)
                  IN  IF e = 0 THEN <<>> ELSE <<b, e>>

RECURSIVE FenceSearchFrom(_, _, _)
FenceSearchFrom(s, i, labelled) ==
    IF i > Len(s) THEN <<>>
    ELSE IF FenceMatchAt(s, i, labelled) # <<>> THEN FenceMatchAt(s, i, labelled)
    ELSE FenceSearchFrom(s, i + 1, labelled)

\* re.search(pattern, text, re.DOTALL): the leftmost match
FenceSearch(s, labelled) == FenceSearchFrom(s, 1, labelled)

\* text.find("{"), 1-based; 0 is Python's -1
FindBrace(s) ==
    LET hits == {i \in 1..Len(s) : s[i] = "{"}
    IN  IF hits = {} THEN 0 ELSE CHOOSE i \in hits : \A j \in hits : i <= j

\* the loop of lines 319-325: the index of the "}" that brings depth back to
\* 0, or 0 when the loop ends without returning
RECURSIVE ScanBalance(_, _, _)
ScanBalance(s, i, depth) ==
    IF i > Len(s) THEN 0
    ELSE IF s[i] = "{" THEN ScanBalance(s, i + 1, depth + 1)
    ELSE IF s[i] = "}"
         THEN IF depth - 1 = 0 THEN i ELSE ScanBalance(s, i + 1, depth - 1)
    ELSE ScanBalance(s, i + 1, depth)

\* an extractor whose last line is missing: the function ends without return
ExtractFallthrough_none(s) == NoneValue

\* line 327: return text.strip()
ExtractFallthrough(s) == StrValue(Strip(s))

\* an extractor that returns the raw text as it came
ExtractFallthrough_raw(s) == StrValue(s)

\* an extractor that tries the unlabelled fence before the labelled one
ExtractFenced_swapped(s) ==
    IF FenceSearch(s, FALSE) # <<>> THEN FenceSearch(s, FALSE)
    ELSE FenceSearch(s, TRUE)

\* lines 305-313: the labelled fence first, then the unlabelled one
ExtractFenced(s) ==
    IF FenceSearch(s, TRUE) # <<>> THEN FenceSearch(s, TRUE)
    ELSE FenceSearch(s, FALSE)

\* an extractor whose brace scan stops at the first "}"
ExtractBalanced_first_close(s) ==
    LET start == FindBrace(s)
        hits == {i \in 1..Len(s) : i > start /\ s[i] = "}"}
    IN  IF start = 0 \/ hits = {} THEN <<>>
        ELSE <<start, CHOOSE i \in hits : \A j \in hits : i <= j>>

\* lines 315-325: from the first "{" to the "}" that balances it
ExtractBalanced(s) ==
    LET start == FindBrace(s)
    IN  IF start = 0 THEN <<>>
        ELSE IF ScanBalance(s, start, 0) = 0 THEN <<>>
        ELSE <<start, ScanBalance(s, start, 0)>>

extract_json_safely(t) ==
    IF t.type # "str" THEN t
    ELSE LET s == t.chars
             m == ExtractFenced(s)
             r == ExtractBalanced(s)
         IN  IF m # <<>> THEN StrValue(Strip(SubSeq(s, m[1], m[2])))
             ELSE IF r # <<>> THEN StrValue(Strip(SubSeq(s, r[1], r[2])))
             ELSE ExtractFallthrough(s)

(***************************************************************************)
(* Inputs of a report run.                                                 *)
(***************************************************************************)
Habit(id, nm, st, et, dow) ==
    [habit_id |-> id, name |-> nm, start_time |-> st, end_time |-> et,
     day_of_week |-> dow]

\* two of the habits have the same name up to case and surrounding blanks
HabitPool ==
    { Habit("h1", "run", <<9, 0>>, <<10, 0>>, <<1, 3, 5>>),
      Habit("h2", "Run ", <<7, 30>>, <<7, 50>>, <<6, 7>>),
      Habit("h3", "read", <<21, 0, 0>>, <<22, 0, 0>>, <<1, 2, 3, 4, 5>>) }

\* the lists of habits with pairwise different ids
ActiveLists ==
    {s \in SeqsUpTo(HabitPool, MaxHabits) :
        /\ Len(s) >= 1
        /\ \A i, j \in 1..Len(s) : i # j => s[i].habit_id # s[j].habit_id}

ReplyIds == {NoneId, "h1", "h2", "h3", "x9"}
ReplyNames == {"", "RUN", "read"}

\* what an entry of the reply may be, before its position is recorded
ReplyShapes ==
    [kind : {"obj"}, habit_id : ReplyIds, name : ReplyNames]
        \cup {[kind |-> "other", habit_id |-> NoneId, name |-> ""]}

ReplyEntry(shape, pos) ==
    [kind |-> shape.kind, habit_id |-> shape.habit_id, name |-> shape.name,
     start_time |-> <<6, 0>>, end_time |-> <<6, 30>>, day_of_week |-> <<1>>,
     src |-> pos]

ReplyList(shapes) == [i \in 1..Len(shapes) |-> ReplyEntry(shapes[i], i)]

\* parsed["recommendation"]: missing, a scalar, a bare object, or a list
ReplyValues ==
    {[kind |-> "absent", items |-> <<>>], [kind |-> "scalar", items |-> <<>>]}
    \cup {[kind |-> "dict", items |-> ReplyList(<<sh>>)] :
            sh \in {x \in ReplyShapes : x.kind = "obj"}}
    \cup {[kind |-> "list", items |-> ReplyList(shapes)] :
            shapes \in SeqsUpTo(ReplyShapes, MaxRecs)}

NoText == StrValue(<<>>)
Pending == [type |-> "pending", chars |-> <<>>]
Wraps == {"json", "plain", "bare"}
NoObj == [chars |-> <<>>, pad |-> 0]
NoFenced == [w \in Wraps |-> Pending]
NoOutcome == [by |-> "", status |-> "pending", recommendation |-> <<>>]
NoRerun == [raised |-> FALSE, recommendation |-> <<>>]
NoPeriod == [start |-> 0, end |-> 0]
NoFiltered == [by |-> "", raised |-> FALSE, habits |-> <<>>]
NoHeap == <<>>
NoStats == [per_habit |-> <<>>, total_attempts |-> 0, total_successes |-> 0]
NoTfr == [key |-> "absent", kind |-> "absent", items |-> <<>>]
NoReply == [tfr |-> NoTfr, consistency_index |-> "absent"]
NoReport == [top_failure_reasons |-> NoTfr, consistency_index |-> "absent"]
NoFailure == [labels |-> <<>>, top |-> <<>>]

\* the steps a specification does not take are at rest
WorldIdle ==
    /\ bundles = <<>>
    /\ results = <<>>
    /\ calls = <<>>
    /\ cursor = 0
    /\ runner = ""
    /\ frames = <<>>
    /\ clock = 0

RestIdle ==
    /\ heap = NoHeap
    /\ stats = NoStats
    /\ reply = NoReply
    /\ report = NoReport
    /\ failure = NoFailure
    /\ WorldIdle

(***************************************************************************)
(* Failure-Reason Attacher: _attach_habit_ids_to_failures                  *)
(* (app/main.py:235-267).  The value of the reply's top_failure_reasons is *)
(* [key, kind, items]: key is the key it came under ("plural" for          *)
(* top_failure_reasons, "singular" for top_failure_reason, "absent"), kind *)
(* its type ("list", "dict", "scalar", "absent"), items the list elements  *)
(* (the one object for a dict).  An element is an object (kind "obj") with *)
(* habit_id, name and habit, or a value that is no object (kind "other").  *)
(***************************************************************************)
\* the characters of the names the model uses; "W" is a blank
Chars(s) ==
    CASE s = "" -> <<>>
      [] s = "run" -> <<"r", "u", "n">>
      [] s = "Run " -> <<"R", "u", "n", "W">>
      [] s = "RUN" -> <<"R", "U", "N">>
      [] s = "read" -> <<"r", "e", "a", "d">>
      [] s = "a run" -> <<"a", "W", "r", "u", "n">>
      [] s = "read b" -> <<"r", "e", "a", "d", "W", "b">>
      [] s = "un" -> <<"u", "n">>
      [] s = "swim" -> <<"s", "w", "i", "m">>
      [] s = " " -> <<"W">>

\* str.lower(), character by character
LowerChar(c) ==
    CASE c = "R" -> "r"
      [] c = "U" -> "u"
      [] c = "N" -> "n"
      [] OTHER -> c

Lower(cs) == [i \in 1..Len(cs) |-> LowerChar(cs[i])]

\* (nm or "").strip().lower() of lines 253 and 260
NameNorm(s) == Lower(Strip(Chars(s)))

\* a in b, for strings
IsSubstring(a, b) ==
    \E i \in 1..(Len(b) + 1) :
        /\ i + Len(a) - 1 <= Len(b)
        /\ SubSeq(b, i, i + Len(a) - 1) = a

\* line 253: the dict {norm(name): habit_id} over the habits with a name, as
\* its items in insertion order; a key met again keeps its place and takes
\* the later habit's id
RECURSIVE IdByNameNorm(_, _, _)
IdByNameNorm(active, k, d) ==
    IF k > Len(active) THEN d
    ELSE IF active[k].name = "" THEN IdByNameNorm(active, k + 1, d)
    ELSE LET key == NameNorm(active[k].name)
             at == {i \in 1..Len(d) : d[i].key = key}
         IN  IF at = {}
             THEN IdByNameNorm(active, k + 1,
                      Append(d, [key |-> key, hid |-> active[k].habit_id]))
             ELSE IdByNameNorm(active, k + 1,
                      [i \in 1..Len(d) |->
                          IF i \in at
                          THEN [key |-> key, hid |-> active[k].habit_id]
                          ELSE d[i]])

\* id_by_name_norm.get(name)
DictGet(d, name) ==
    IF \E i \in 1..Len(d) : d[i].key = name
    THEN d[CHOOSE i \in 1..Len(d) : d[i].key = name].hid
    ELSE NoneId

\* lines 262-265: the first item whose key contains name or is contained in it
BySubstring(d, name) ==
    LET hits == {i \in 1..Len(d) :
                    IsSubstring(name, d[i].key) \/ IsSubstring(d[i].key, name)}
    IN  IF name # <<>> /\ hits # {}
        THEN d[CHOOSE i \in hits : \A j \in hits : i <= j].hid
        ELSE NoneId

\* lines 256-267, for one element of the list, with no substring step
AttachOne_exact_only(it, active) ==
    LET d == IdByNameNorm(active, 1, <<>>)
        name == NameNorm(IF it.habit # "" THEN it.habit ELSE it.name)
        hid == DictGet(d, name)
    IN  IF it.kind # "obj" THEN it
        ELSE IF it.habit_id \in ValidIdSet(active) THEN it
        ELSE [it EXCEPT !.habit_id =
                 IF hid # NoneId THEN hid ELSE active[1].habit_id]

\* lines 256-267, for one element of the list
AttachOne(it, active) ==
    LET d == IdByNameNorm(active, 1, <<>>)
        name == NameNorm(IF it.habit # "" THEN it.habit ELSE it.name)
        exact == DictGet(d, name)
        hid == IF exact # NoneId THEN exact ELSE BySubstring(d, name)
    IN  IF it.kind # "obj" THEN it
        ELSE IF it.habit_id \in ValidIdSet(active) THEN it
        ELSE [it EXCEPT !.habit_id =
                 IF hid # NoneId THEN hid ELSE active[1].habit_id]

\* a value that is no object, as a list element
OtherElement == [kind |-> "other", habit_id |-> NoneId, name |-> "", habit |-> "", src |-> 0]

\* _normalize_parsed_fields, lines 274-276: a bare object under
\* top_failure_reasons becomes a one-element list
NormalizeTfr(t) ==
    IF t.key = "plural" /\ t.kind = "dict"
    THEN [key |-> "plural", kind |-> "list", items |-> t.items]
    ELSE t

\* lines 242-245: top_failure_reason becomes top_failure_reasons, a value
\* that is no list wrapped into one
PromoteSingular(t) ==
    IF t.key # "singular" THEN t
    ELSE [key |-> "plural", kind |-> "list",
          items |-> CASE t.kind = "list" -> t.items
                      [] t.kind = "dict" -> t.items
                      [] OTHER -> <<OtherElement>>]

\* _attach_habit_ids_to_failures: parsed's top_failure_reasons afterwards
AttachHabitIdsToFailures(t, active) ==
    LET p == PromoteSingular(t)
    IN  IF p.kind # "list" THEN p
        ELSE [p EXCEPT !.items = [i \in 1..Len(p.items) |-> AttachOne(p.items[i], active)]]

\* GenerateRunResponseItem (lines 62-77) accepts top_failure_reasons when it
\* is missing or a list of objects
ValidTfrField(t) ==
    \/ t.kind = "absent"
    \/ t.kind = "list" /\ \A i \in 1..Len(t.items) : t.items[i].kind = "obj"

(***************************************************************************)
(* The report run, from the parsed reply to what the caller gets.          *)
(***************************************************************************)
\* app/main.py:322-343: _normalize_parsed_fields, _postprocess_recommendations,
\* then the report; any exception becomes HTTPException(500)
AppReport(v, active) ==
    LET r == Reconcile(NormalizeParsedFields(v), active, "app")
    IN  IF r.raised
        THEN [by |-> "app", status |-> "error", recommendation |-> <<>>]
        ELSE [by |-> "app", status |-> "ok", recommendation |-> r.recommendation]

\* api/generate_report.py:383-472: the inline Reconciler, then the report
\* file; any exception writes the fallback record with its "error" field
ScriptReport(v, active) ==
    LET r == Reconcile(v, active, "script")
    IN  IF r.raised
        THEN [by |-> "script", status |-> "error", recommendation |-> <<>>]
        ELSE [by |-> "script", status |-> "ok", recommendation |-> r.recommendation]

\* app/main.py:327-338: the report's other keys after the Attacher; the
\* response model keeps the keys it does not know (extra = "allow")
AppRest(rp, active) ==
    [top_failure_reasons |-> AttachHabitIdsToFailures(NormalizeTfr(rp.tfr), active),
     consistency_index |-> rp.consistency_index]

\* api/generate_report.py:445-451: parsed is dumped as the reply gave it
ScriptRest(rp) ==
    [top_failure_reasons |-> rp.tfr, consistency_index |-> rp.consistency_index]

\* app/main.py:322-343: outcome and report of the app from the parsed reply
\* on; the Attacher runs when the Reconciler has not raised, and a report
\* the response model rejects becomes HTTPException(500)
AppResponse(v, rp, active) ==
    LET o == AppReport(v, active)
        r == AppRest(rp, active)
    IN  IF o.status # "ok" THEN [outcome |-> o, report |-> NoReport]
        ELSE [outcome |-> IF ValidTfrField(r.top_failure_reasons) THEN o
                          ELSE [by |-> "app", status |-> "error",
                                recommendation |-> <<>>],
              report |-> r]

\* api/generate_report.py:383-472: outcome and report file of the script
ScriptResponse(v, rp, active) ==
    LET o == ScriptReport(v, active)
    IN  [outcome |-> o,
         report |-> IF o.status = "ok" THEN ScriptRest(rp) ELSE NoReport]

\* _generate_for_user_bundle from the parsed reply on (lines 322-343)
GenerateForUserBundle ==
    /\ pc = "parsed"
    /\ outcome' = AppResponse(parsed, reply, active_habits).outcome
    /\ report' = AppResponse(parsed, reply, active_habits).report
    /\ pc' = "done"
    /\ UNCHANGED <<active_habits, parsed, rerun, text, json_text,
                   obj, fenced, habits_all, period, filtered,
                   heap, stats, reply, failure, world>>

\* main from the parsed reply on (api/generate_report.py:383-472)
ScriptMain ==
    /\ pc = "parsed"
    /\ outcome' = ScriptResponse(parsed, reply, active_habits).outcome
    /\ report' = ScriptResponse(parsed, reply, active_habits).report
    /\ pc' = "done"
    /\ UNCHANGED <<active_habits, parsed, rerun, text, json_text,
                   obj, fenced, habits_all, period, filtered,
                   heap, stats, reply, failure, world>>

\* the Reconciler once more, on the report it produced
ReconcileAgain ==
    /\ pc = "done"
    /\ outcome.status = "ok"
    /\ rerun' = Reconcile([kind |-> "list", items |-> outcome.recommendation],
                          active_habits, outcome.by)
    /\ pc' = "rerun"
    /\ UNCHANGED <<active_habits, parsed, outcome, text, json_text,
                   obj, fenced, habits_all, period, filtered, rest>>

Init ==
    /\ active_habits \in ActiveLists
    /\ parsed \in ReplyValues
    /\ pc = "parsed"
    /\ outcome = NoOutcome
    /\ rerun = NoRerun
    /\ text = NoText
    /\ json_text = NoText
    /\ obj = NoObj
    /\ fenced = NoFenced
    /\ habits_all = <<>>
    /\ period = NoPeriod
    /\ filtered = NoFiltered
    /\ RestIdle

Next ==
    \/ GenerateForUserBundle
    \/ ScriptMain
    \/ ReconcileAgain

Spec == Init /\ [][Next]_vars

(***************************************************************************)
(* Properties of the Recommendation Reconciler.                            *)
(***************************************************************************)
\* every element of the reply's recommendation value is an object
AllObjects(v) == \A i \in 1..Len(v.items) : v.items[i].kind = "obj"

ReplyIdsAt(v) == [i \in 1..Len(v.items) |-> v.items[i].habit_id]

EntriesFor(recs, hid) == {i \in 1..Len(recs) : recs[i].habit_id = hid}

\* C1 (completeness): whatever the reply's recommendation is (absent, no
\* list, or a list of objects with duplicate, foreign or scrambled ids), the
\* reconciled list has exactly len(ActiveHabits) entries, exactly one per
\* ActiveHabit id.
C1_Completeness ==
    (pc # "parsed" /\ AllObjects(parsed)) =>
        /\ outcome.status = "ok"
        /\ Len(outcome.recommendation) = Len(active_habits)
        /\ \A k \in 1..Len(active_habits) :
              Cardinality(EntriesFor(outcome.recommendation,
                                     active_habits[k].habit_id)) = 1

\* a reply with two entries for one id and none for the other habit
C1_Witness ==
    /\ pc = "done"
    /\ Len(active_habits) = 2
    /\ parsed.kind = "list"
    /\ ReplyIdsAt(parsed) = <<active_habits[2].habit_id, active_habits[2].habit_id>>
    /\ Len(outcome.recommendation) = 2
    /\ outcome.recommendation[1].src = 0
    /\ outcome.recommendation[2].src = 1

\* C2 (identity and order): the i-th reconciled entry carries the habit_id of
\* the i-th ActiveHabit, whatever ids and order the reply used.
C2_IdentityOrder ==
    (pc # "parsed" /\ AllObjects(parsed)) =>
        /\ Len(outcome.recommendation) = Len(active_habits)
        /\ \A i \in 1..Len(active_habits) :
              outcome.recommendation[i].habit_id = active_habits[i].habit_id

\* a reply that lists the two habits in the opposite order
C2_Witness ==
    /\ pc = "done"
    /\ Len(active_habits) = 2
    /\ parsed.kind = "list"
    /\ ReplyIdsAt(parsed) = <<active_habits[2].habit_id, active_habits[1].habit_id>>
    /\ outcome.recommendation[1].src = 2
    /\ outcome.recommendation[2].src = 1

\* C3 (idempotence): the Reconciler run again on its own output, with the
\* same ActiveHabits, returns that output unchanged.
C3_Idempotent ==
    pc = "rerun" =>
        /\ ~rerun.raised
        /\ rerun.recommendation = outcome.recommendation

\* a second run over an output that holds a repaired entry and a fallback
C3_Witness ==
    /\ pc = "rerun"
    /\ Len(active_habits) = 2
    /\ parsed.kind = "list"
    /\ ReplyIdsAt(parsed) = <<"x9">>
    /\ outcome.recommendation[1].src = 1
    /\ outcome.recommendation[2].src = 0
    /\ rerun.recommendation = outcome.recommendation

\* C4 (a parseable reply is never a failure): whatever the shape of the
\* reply's recommendation value, list elements that are no objects included,
\* the run ends with a report and no error.
C4_NeverSurfaced == pc # "parsed" => outcome.status = "ok"

(***************************************************************************)
(* The extractor applied to a reply text.                                  *)
(***************************************************************************)
ExtractTokens == {"F", "J", "W", "{", "}", "x"}

\* a reply block: a small object in a labelled fence, in a plain fence, bare
ReplyBlocks ==
    UNION {{<<"F", "J">> \o o \o <<"F">>, <<"F">> \o o \o <<"F">>, o} :
            o \in {<<"{", "}">>, <<"{", "x", "}">>}}

\* every string of at most MaxLen tokens, every reply made of two blocks, and
\* one value that is no string
Texts ==
    {StrValue(s) : s \in SeqsUpTo(ExtractTokens, MaxLen)}
    \cup {StrValue(a \o b) : a \in ReplyBlocks, b \in ReplyBlocks}
    \cup {NoneValue}

\* json_text = extract_json_safely(response)
ExtractReply ==
    /\ pc = "reply"
    /\ json_text' = extract_json_safely(text)
    /\ pc' = "extracted"
    /\ UNCHANGED <<active_habits, parsed, outcome, rerun, text,
                   obj, fenced, habits_all, period, filtered, rest>>

InitExtract ==
    /\ text \in Texts
    /\ pc = "reply"
    /\ json_text = NoText
    /\ obj = NoObj
    /\ fenced = NoFenced
    /\ active_habits = <<>>
    /\ parsed = [kind |-> "absent", items |-> <<>>]
    /\ outcome = NoOutcome
    /\ rerun = NoRerun
    /\ habits_all = <<>>
    /\ period = NoPeriod
    /\ filtered = NoFiltered
    /\ RestIdle

NextExtract == ExtractReply

SpecExtract == InitExtract /\ [][NextExtract]_vars

AllWs(s, a, b) == \A k \in a..b : s[k] = "W"

\* the spans <<b, e>> of s that read "{ ... }" with only whitespace between
\* an opening fence (with the json label, or with none) and the "{", and only
\* whitespace between the "}" and a later fence
FencedObjects(s, labelled) ==
    {m \in (1..Len(s)) \X (1..Len(s)) :
        /\ m[1] < m[2]
        /\ s[m[1]] = "{"
        /\ s[m[2]] = "}"
        /\ \E i \in 1..(m[1] - 1) :
              /\ s[i] = "F"
              /\ IF labelled
                 THEN i + 1 < m[1] /\ s[i + 1] = "J" /\ AllWs(s, i + 2, m[1] - 1)
                 ELSE AllWs(s, i + 1, m[1] - 1)
        /\ \E f \in (m[2] + 1)..Len(s) :
              s[f] = "F" /\ AllWs(s, m[2] + 1, f - 1)}

\* number of "{" minus number of "}" in s[a..b]
Depth(s, a, b) ==
    Cardinality({k \in a..b : s[k] = "{"}) - Cardinality({k \in a..b : s[k] = "}"})

\* the span from the first "{" to the first place where the depth is 0 again
BalancedSpans(s) ==
    {m \in (1..Len(s)) \X (1..Len(s)) :
        /\ s[m[1]] = "{"
        /\ \A k \in 1..(m[1] - 1) : s[k] # "{"
        /\ m[1] <= m[2]
        /\ Depth(s, m[1], m[2]) = 0
        /\ \A k \in m[1]..(m[2] - 1) : Depth(s, m[1], k) # 0}

\* s without the whitespace around it
Trimmed(s) ==
    LET ink == {i \in 1..Len(s) : s[i] # "W"}
    IN  IF ink = {} THEN <<>>
        ELSE SubSeq(s, CHOOSE i \in ink : \A j \in ink : i <= j,
                       CHOOSE i \in ink : \A j \in ink : i >= j)

\* C5 (the extractor is total): for every input text, extract returns a
\* string; it never ends in an error or with a value that is no string.
C5_ExtractTotal ==
    (pc = "extracted" /\ text.type = "str") =>
        /\ json_text.type = "str"
        /\ json_text.chars \in Seq(ExtractTokens)
        /\ Len(json_text.chars) <= Len(text.chars)

\* an unterminated labelled fence holding an unbalanced brace
C5_Witness ==
    /\ pc = "extracted"
    /\ text = StrValue(<<"W", "F", "J", "{", "{", "}">>)
    /\ json_text = StrValue(<<"F", "J", "{", "{", "}">>)

C7_WitnessRaw ==
    /\ pc = "extracted"
    /\ text = StrValue(<<"W", "x", "{", "{", "}", "W">>)
    /\ json_text = StrValue(<<"x", "{", "{", "}">>)

(***************************************************************************)
(* One JSON object, extracted from a labelled fence, a plain fence, bare.  *)
(***************************************************************************)
ObjTokens == {"{", "}", "q", "F"}

\* reading o from position i on as JSON: depth of open braces, inside a
\* string literal or not; braces and fences inside a string are characters
RECURSIVE JsonScan(_, _, _, _)
JsonScan(o, i, depth, instr) ==
    IF i > Len(o) THEN depth = 0 /\ ~instr
    ELSE IF instr THEN JsonScan(o, i + 1, depth, o[i] # "q")
    ELSE IF o[i] = "q" THEN JsonScan(o, i + 1, depth, TRUE)
    ELSE IF o[i] = "{" THEN JsonScan(o, i + 1, depth + 1, FALSE)
    ELSE IF o[i] = "}"
         THEN (depth - 1 > 0 \/ i = Len(o)) /\ JsonScan(o, i + 1, depth - 1, FALSE)
    ELSE FALSE

\* o reads as one JSON object: "{" first, its matching "}" last
IsJsonObject(o) == Len(o) >= 2 /\ o[1] = "{" /\ JsonScan(o, 1, 0, FALSE)

JsonObjects ==
    {o \in {<<"{">> \o inner \o <<"}">> : inner \in SeqsUpTo(ObjTokens, MaxObjInner)} :
        IsJsonObject(o)}

Blanks(n) == [i \in 1..n |-> "W"]

\* the reply that carries o in the given way
WrapObject(o, pad, w) ==
    CASE w = "json" -> <<"F", "J">> \o Blanks(pad) \o o \o Blanks(pad) \o <<"F">>
      [] w = "plain" -> <<"F">> \o Blanks(pad) \o o \o Blanks(pad) \o <<"F">>
      [] OTHER -> o

ExtractWrapped(w) ==
    /\ pc = "object"
    /\ fenced[w] = Pending
    /\ text' = StrValue(WrapObject(obj.chars, obj.pad, w))
    /\ json_text' = extract_json_safely(text')
    /\ fenced' = [fenced EXCEPT ![w] = json_text']
    /\ UNCHANGED <<active_habits, parsed, pc, outcome, rerun, obj,
                   habits_all, period, filtered, rest>>

ExtractFromJsonFence == ExtractWrapped("json")
ExtractFromPlainFence == ExtractWrapped("plain")
ExtractBare == ExtractWrapped("bare")

InitFence ==
    /\ obj \in [chars : JsonObjects, pad : {0, 1}]
    /\ fenced = NoFenced
    /\ pc = "object"
    /\ text = NoText
    /\ json_text = NoText
    /\ active_habits = <<>>
    /\ parsed = [kind |-> "absent", items |-> <<>>]
    /\ outcome = NoOutcome
    /\ rerun = NoRerun
    /\ habits_all = <<>>
    /\ period = NoPeriod
    /\ filtered = NoFiltered
    /\ RestIdle

NextFence ==
    \/ ExtractFromJsonFence
    \/ ExtractFromPlainFence
    \/ ExtractBare

SpecFence == InitFence /\ [][NextFence]_vars

AllExtracted == \A w \in Wraps : fenced[w] # Pending

\* C6 as claimed (fence-independence for every JSON object text, braces
\* inside string values included): the three ways of carrying the object
\* give the same extracted text.
C6_FenceIndependent ==
    AllExtracted => \A v, w \in Wraps : fenced[v] = fenced[w]

\* the object holds no code fence
NoFenceInside(o) == \A i \in 1..Len(o) : o[i] # "F"

\* counting braces naively, the depth is not back at zero before the last "}"
NaiveDepthOpen(o) == \A k \in 1..(Len(o) - 1) : Depth(o, 1, k) # 0

\* C6 as amended: for every JSON object text that holds no code fence and
\* whose naive brace depth, counted from its first "{", does not return to
\* zero before its final "}", the extractor returns the same text, the object
\* itself, from a json fence, from a plain fence and from the bare object.
C6_FenceIndependentNaive ==
    (AllExtracted /\ NoFenceInside(obj.chars) /\ NaiveDepthOpen(obj.chars)) =>
        \A w \in Wraps : fenced[w] = StrValue(obj.chars)

\* a nested object and one whose string value holds "{", all three extracted
C6_Witness ==
    /\ AllExtracted
    /\ obj.chars \in {<<"{", "{", "}", "{", "}", "}">>, <<"{", "q", "{", "q", "}">>}
    /\ obj.pad = 1
    /\ fenced["bare"] = StrValue(obj.chars)
    /\ fenced["json"] = fenced["bare"]

(***************************************************************************)
(* The fallback entry, over the times a habit may carry.                   *)
(***************************************************************************)
ClockMinutes == {0, 5, 540, 550, 560, 564, 565, 566, 600, 1430, 1435, 1439}

\* "HH:MM" strings, "HH:MM:SS" strings, an hour out of range, and no time
TimeStrings ==
    {<<m \div 60, m % 60>> : m \in ClockMinutes}
    \cup {<<9, 0, 0>>, <<9, 20, 0>>, <<10, 0, 0>>}
    \cup {<<24, 0>>, <<>>}

SynthHabits ==
    {Habit("h2", nm, st, et, dow) :
        nm \in {"read", ""}, st \in TimeStrings, et \in TimeStrings,
        dow \in {<<1, 3, 5>>, <<6, 7>>}}

PoolHabit(id) == CHOOSE h \in HabitPool : h.habit_id = id

\* the habit alone with a reply that has no recommendation, or second to a
\* habit the reply has an entry for
InitSynth ==
    /\ \E h \in SynthHabits :
          \/ /\ active_habits = <<h>>
             /\ parsed = [kind |-> "absent", items |-> <<>>]
          \/ /\ active_habits = <<PoolHabit("h1"), h>>
             /\ parsed = [kind |-> "list",
                          items |-> ReplyList(<<[kind |-> "obj", habit_id |-> "h1",
                                                 name |-> "RUN"]>>)]
    /\ pc = "parsed"
    /\ outcome = NoOutcome
    /\ rerun = NoRerun
    /\ text = NoText
    /\ json_text = NoText
    /\ obj = NoObj
    /\ fenced = NoFenced
    /\ habits_all = <<>>
    /\ period = NoPeriod
    /\ filtered = NoFiltered
    /\ RestIdle

SpecSynth == InitSynth /\ [][Next]_vars

\* the reconciled entry of habit k is a synthesized fallback
IsFallback(k) ==
    /\ pc # "parsed"
    /\ outcome.status = "ok"
    /\ k \in 1..Len(outcome.recommendation)
    /\ outcome.recommendation[k].src = 0

MinuteOfDay(t) == t[1] * 60 + t[2]

\* max(10, L - 15) with L the minutes from s to e, 0 when e is before s
LighterSession(s, e) ==
    LET L == IF e >= s THEN e - s ELSE 0
    IN  IF L - 15 >= 10 THEN L - 15 ELSE 10

\* C8 (fallback arithmetic): the fallback of a habit with HH:MM times keeps
\* the habit's start_time and weekdays, and its end_time is the clock time
\* max(10, L - 15) minutes after start_time; 09:00-10:00 gives 09:45 and
\* 09:00-09:20 gives 09:10.
C8_FallbackArithmetic ==
    \A k \in 1..Len(active_habits) :
        LET h == active_habits[k]
            r == outcome.recommendation[k]
        IN  (IsFallback(k) /\ ParsesHHMM(h.start_time) /\ ParsesHHMM(h.end_time)) =>
                /\ r.habit_id = h.habit_id
                /\ r.start_time = h.start_time
                /\ r.day_of_week = h.day_of_week
                /\ Len(r.end_time) = 2
                /\ MinuteOfDay(r.end_time) =
                     (MinuteOfDay(h.start_time)
                        + LighterSession(MinuteOfDay(h.start_time),
                                         MinuteOfDay(h.end_time))) % 1440
                /\ (h.start_time = <<9, 0>> /\ h.end_time = <<10, 0>>
                        => r.end_time = <<9, 45>>)
                /\ (h.start_time = <<9, 0>> /\ h.end_time = <<9, 20>>
                        => r.end_time = <<9, 10>>)

\* the fallback of a 09:00-09:20 habit that stands second in the list
C8_Witness ==
    /\ Len(active_habits) = 2
    /\ IsFallback(2)
    /\ active_habits[2].start_time = <<9, 0>>
    /\ active_habits[2].end_time = <<9, 20>>
    /\ outcome.recommendation[2].end_time = <<9, 10>>
    /\ outcome.recommendation[1].src = 1

\* C9 (HH:MM:SS is normalised): the fallback of a habit whose times come as
\* HH:MM:SS is the one of the same times in HH:MM form, seconds dropped.
C9_SecondsNormalized ==
    \A k \in 1..Len(active_habits) :
        LET h == active_habits[k]
            r == outcome.recommendation[k]
            st == SubSeq(h.start_time, 1, 2)
            et == SubSeq(h.end_time, 1, 2)
        IN  (IsFallback(k) /\ Len(h.start_time) = 3 /\ Len(h.end_time) = 3) =>
                /\ r.start_time = st
                /\ MinuteOfDay(r.end_time) =
                     (MinuteOfDay(st)
                        + LighterSession(MinuteOfDay(st), MinuteOfDay(et))) % 1440

(***************************************************************************)
(* Time-Window Filter.  A date string is <<n>>, n the day number of the    *)
(* calendar date it names, or <<>> when it names none (strptime raises).   *)
(*   app:    _filter_habits_by_date_range  (app/main.py:151-172)           *)
(*   script: minutes_filter_copy, extract_last_days_logs                   *)
(*           (api/generate_report.py:51-73, 360); the same                 *)
(*           extract_last_days_logs is in api/fast_api/app.py:31-37        *)
(***************************************************************************)
\* datetime.strptime(s, "%Y-%m-%d") succeeds
ParsesDate(d) == Len(d) = 1

\* lines 162-169: the entries whose date parses and lies in [sd, ed]
FilterLogsByRange(logs, sd, ed) ==
    SelectSeq(logs, LAMBDA log :
        ParsesDate(log.date) /\ sd <= log.date[1] /\ log.date[1] <= ed)

\* [h for h in out if h.get("habit_log")]
DropEmpty(habits) == SelectSeq(habits, LAMBDA h : h.habit_log # <<>>)

FilterHabitsByDateRange(habits, sd, ed) ==
    [by |-> "app", raised |-> FALSE,
     habits |-> DropEmpty([i \in 1..Len(habits) |->
         [habits[i] EXCEPT !.habit_log = FilterLogsByRange(@, sd, ed)]])]

\* extract_last_days_logs raises ValueError: strptime runs on every entry
LastDaysRaises(logs) == \E j \in 1..Len(logs) : ~ParsesDate(logs[j].date)

\* extract_last_days_logs(logs, days): from today - days to today, inclusive
extract_last_days_logs(logs, today, days) ==
    SelectSeq(logs, LAMBDA log :
        today - days <= log.date[1] /\ log.date[1] <= today)

\* minutes_filter_copy and line 360; nothing catches the ValueError
MinutesFilterCopy(habits, today, days) ==
    IF \E i \in 1..Len(habits) : LastDaysRaises(habits[i].habit_log)
    THEN [by |-> "script", raised |-> TRUE, habits |-> <<>>]
    ELSE [by |-> "script", raised |-> FALSE,
          habits |-> DropEmpty([i \in 1..Len(habits) |->
              [habits[i] EXCEPT !.habit_log =
                  extract_last_days_logs(@, today, days)]])]

LogDates == {<<1>>, <<2>>, <<3>>, <<>>}

LogEntries == [date : LogDates, completed : BOOLEAN]

Periods == {[start |-> 2, end |-> 2], [start |-> 2, end |-> 3]}

WithLog(h, logs) ==
    [habit_id |-> h.habit_id, name |-> h.name, start_time |-> h.start_time,
     end_time |-> h.end_time, day_of_week |-> h.day_of_week, habit_log |-> logs]

FilterApp ==
    /\ pc = "habits"
    /\ filtered' = FilterHabitsByDateRange(habits_all, period.start, period.end)
    /\ pc' = "filtered"
    /\ UNCHANGED <<active_habits, parsed, outcome, rerun, text, json_text,
                   obj, fenced, habits_all, period, rest>>

FilterScript ==
    /\ pc = "habits"
    /\ filtered' = MinutesFilterCopy(habits_all, period.end,
                                     period.end - period.start)
    /\ pc' = "filtered"
    /\ UNCHANGED <<active_habits, parsed, outcome, rerun, text, json_text,
                   obj, fenced, habits_all, period, rest>>

InitFilter ==
    /\ \E la, lb \in SeqsUpTo(LogEntries, MaxLogs) :
          habits_all = <<WithLog(PoolHabit("h1"), la), WithLog(PoolHabit("h2"), lb)>>
    /\ period \in Periods
    /\ filtered = NoFiltered
    /\ RestIdle
    /\ pc = "habits"
    /\ active_habits = <<>>
    /\ parsed = [kind |-> "absent", items |-> <<>>]
    /\ outcome = NoOutcome
    /\ rerun = NoRerun
    /\ text = NoText
    /\ json_text = NoText
    /\ obj = NoObj
    /\ fenced = NoFenced

NextFilter ==
    \/ FilterApp
    \/ FilterScript

SpecFilter == InitFilter /\ [][NextFilter]_vars

\* the entries of a log that the window keeps
InWindow(log, p) ==
    /\ Len(log.date) = 1
    /\ p.start <= log.date[1]
    /\ log.date[1] <= p.end

KeptIndexes(logs, p) == {j \in 1..Len(logs) : InWindow(logs[j], p)}

\* out is logs restricted to the entries of the window, in the same order
IsWindowOf(out, logs, p) ==
    /\ Len(out) = Cardinality(KeptIndexes(logs, p))
    /\ \A j \in KeptIndexes(logs, p) :
          out[Cardinality({i \in KeptIndexes(logs, p) : i <= j})] = logs[j]

\* every habit with an entry in the window is reported, with those entries
FilterKeepsWindow ==
    /\ ~filtered.raised
    /\ Len(filtered.habits) =
          Cardinality({i \in 1..Len(habits_all) :
                          KeptIndexes(habits_all[i].habit_log, period) # {}})
    /\ \A i \in 1..Len(habits_all) :
          KeptIndexes(habits_all[i].habit_log, period) # {} =>
              \E k \in 1..Len(filtered.habits) :
                  /\ filtered.habits[k].habit_id = habits_all[i].habit_id
                  /\ IsWindowOf(filtered.habits[k].habit_log,
                                habits_all[i].habit_log, period)

\* C10 (filter tolerance): the filter keeps exactly the entries dated in
\* [start, end]; an entry with a malformed date is left out and never aborts
\* the run, so the other entries and the other habits are still reported.
C10_FilterTolerant == pc = "filtered" => FilterKeepsWindow

(***************************************************************************)
(* Statistics Aggregator: the loop of build_prompt                         *)
(* (api/generate_report.py:161-193; build_monthly_prompt of                *)
(* api/generate_monthly_report.py:68-85 computes the same numbers).        *)
(* A rate is the fraction [num, den], the float num / den: the code        *)
(* computes successes / attempts * 100.                                    *)
(***************************************************************************)
\* sum(1 for log in logs if log.get("completed"))
RECURSIVE CountCompleted(_)
CountCompleted(logs) ==
    IF logs = <<>> THEN 0
    ELSE (IF Head(logs).completed THEN 1 ELSE 0) + CountCompleted(Tail(logs))

\* a rate computed with no guard on the divisor
SuccessRate_unguarded(successes, attempts) ==
    [num |-> successes * 100, den |-> attempts]

\* (successes / attempts * 100) if attempts else 0.0
SuccessRate(successes, attempts) ==
    IF attempts # 0
    THEN [num |-> successes * 100, den |-> attempts]
    ELSE [num |-> 0, den |-> 1]

\* one turn of the loop where the totals are assigned, not added to
AddHabit_overwrite(acc, habit) ==
    LET attempts == Len(habit.habit_log)
        successes == CountCompleted(habit.habit_log)
    IN  [per_habit |-> Append(acc.per_habit,
                          [habit_id |-> habit.habit_id,
                           attempts |-> attempts,
                           successes |-> successes,
                           success_rate |-> SuccessRate(successes, attempts)]),
         total_attempts |-> attempts,
         total_successes |-> successes]

\* lines 167-186: one turn of the loop
AddHabit(acc, habit) ==
    LET attempts == Len(habit.habit_log)
        successes == CountCompleted(habit.habit_log)
    IN  [per_habit |-> Append(acc.per_habit,
                          [habit_id |-> habit.habit_id,
                           attempts |-> attempts,
                           successes |-> successes,
                           success_rate |-> SuccessRate(successes, attempts)]),
         total_attempts |-> acc.total_attempts + attempts,
         total_successes |-> acc.total_successes + successes]

RECURSIVE AggregateFrom(_, _, _)
AggregateFrom(habits_data, k, acc) ==
    IF k > Len(habits_data) THEN acc
    ELSE AggregateFrom(habits_data, k + 1, AddHabit(acc, habits_data[k]))

\* line 193
OverallSuccessRate(st) == SuccessRate(st.total_successes, st.total_attempts)

\* build_prompt, lines 161-193: per-habit numbers in the order of
\* habits_data, the totals and the overall rate
BuildPromptStats(habits_data) ==
    LET st == AggregateFrom(habits_data, 1, NoStats)
    IN  [per_habit |-> st.per_habit,
         total_attempts |-> st.total_attempts,
         total_successes |-> st.total_successes,
         overall_success_rate |-> OverallSuccessRate(st)]

(***************************************************************************)
(* The whole run on one user's bundle.  The habit dicts live in heap, by   *)
(* address; the caller's habits are the addresses 1..Len(habits_all), and  *)
(* habits_all keeps their values as they were before the run.              *)
(***************************************************************************)
\* h_copy = h: the same dict under a second name
deepcopy_alias(hp, a) == [heap |-> hp, ref |-> a]

\* h_copy = copy.deepcopy(h) (app/main.py:158): a new dict, equal to the old
deepcopy(hp, a) == [heap |-> Append(hp, hp[a]), ref |-> Len(hp) + 1]

\* app/main.py:156-171: the loop, from the k-th habit on; out holds the
\* addresses appended so far
RECURSIVE FilterLoop(_, _, _, _, _, _)
FilterLoop(hp, n, k, out, sd, ed) ==
    IF k > n THEN [heap |-> hp, out |-> out]
    ELSE LET c == deepcopy(hp, k)
             written == [c.heap EXCEPT ![c.ref].habit_log =
                                            FilterLogsByRange(@, sd, ed)]
         IN  FilterLoop(written, n, k + 1, Append(out, c.ref), sd, ed)

\* the filter without its last line, which drops the habits left with no log
FilterOnHeap_keep_empty(hp, n, sd, ed) ==
    LET f == FilterLoop(hp, n, 1, <<>>, sd, ed)
    IN  [raised |-> FALSE, heap |-> f.heap, refs |-> f.out]

\* _filter_habits_by_date_range on the caller's n habits
FilterOnHeap(hp, n, sd, ed) ==
    LET f == FilterLoop(hp, n, 1, <<>>, sd, ed)
    IN  [raised |-> FALSE,
         heap |-> f.heap,
         refs |-> SelectSeq(f.out, LAMBDA r : f.heap[r].habit_log # <<>>)]

\* api/generate_report.py:63-72: a new dict per habit, with the log that
\* extract_last_days_logs returns
RECURSIVE CopyLoop(_, _, _, _, _, _)
CopyLoop(hp, n, k, out, today, days) ==
    IF k > n THEN [heap |-> hp, out |-> out]
    ELSE CopyLoop(Append(hp, [hp[k] EXCEPT !.habit_log =
                                  extract_last_days_logs(@, today, days)]),
                  n, k + 1, Append(out, Len(hp) + 1), today, days)

\* minutes_filter_copy and the comprehension of line 360
MinutesFilterOnHeap(hp, n, today, days) ==
    IF \E k \in 1..n : LastDaysRaises(hp[k].habit_log)
    THEN [raised |-> TRUE, heap |-> hp, refs |-> <<>>]
    ELSE LET f == CopyLoop(hp, n, 1, <<>>, today, days)
         IN  [raised |-> FALSE,
              heap |-> f.heap,
              refs |-> SelectSeq(f.out, LAMBDA r : f.heap[r].habit_log # <<>>)]

Deref(hp, refs) == [k \in 1..Len(refs) |-> hp[refs[k]]]

\* _generate_for_user_bundle (app/main.py:284-343)
RunBundle ==
    /\ pc = "bundle"
    /\ LET f == FilterOnHeap(heap, Len(habits_all), period.start, period.end)
           active == Deref(f.heap, f.refs)
           resp == AppResponse(parsed, reply, active)
       IN  /\ heap' = f.heap
           /\ filtered' = [by |-> "app", raised |-> FALSE, habits |-> active]
           /\ active_habits' = active
           /\ IF active = <<>>
              THEN /\ outcome' = [by |-> "app", status |-> "nodata",
                                  recommendation |-> <<>>]
                   /\ UNCHANGED <<stats, report>>
              ELSE /\ stats' = BuildPromptStats(active)
                   /\ outcome' = resp.outcome
                   /\ report' = resp.report
    /\ pc' = "done"
    /\ UNCHANGED <<parsed, rerun, text, json_text, obj, fenced, habits_all,
                   period, reply, failure, world>>

\* main, for one input file (api/generate_report.py:344-476)
RunScriptFile ==
    /\ pc = "bundle"
    /\ LET f == MinutesFilterOnHeap(heap, Len(habits_all), period.end,
                                    period.end - period.start)
           active == Deref(f.heap, f.refs)
           resp == ScriptResponse(parsed, reply, active)
       IN  /\ heap' = f.heap
           /\ filtered' = [by |-> "script", raised |-> f.raised, habits |-> active]
           /\ active_habits' = active
           /\ IF f.raised
              THEN /\ outcome' = [by |-> "script", status |-> "crash",
                                  recommendation |-> <<>>]
                   /\ UNCHANGED <<stats, report>>
              ELSE IF active = <<>>
              THEN /\ outcome' = [by |-> "script", status |-> "nodata",
                                  recommendation |-> <<>>]
                   /\ UNCHANGED <<stats, report>>
              ELSE /\ stats' = BuildPromptStats(active)
                   /\ outcome' = resp.outcome
                   /\ report' = resp.report
    /\ pc' = "done"
    /\ UNCHANGED <<parsed, rerun, text, json_text, obj, fenced, habits_all,
                   period, reply, failure, world>>

RunLogEntries ==
    [date : LogDates, completed : {FALSE}] \cup {[date |-> <<2>>, completed |-> TRUE]}

\* replies: no recommendation, or the two habits in the opposite order
RunReplies ==
    {[kind |-> "absent", items |-> <<>>],
     [kind |-> "list",
      items |-> ReplyList(<<[kind |-> "obj", habit_id |-> "h2", name |-> ""],
                            [kind |-> "obj", habit_id |-> "h1", name |-> ""]>>)]}

InitRun ==
    /\ \E la, lb \in SeqsUpTo(RunLogEntries, MaxLogs) :
          habits_all = <<WithLog(PoolHabit("h1"), la), WithLog(PoolHabit("h2"), lb)>>
    /\ heap = habits_all
    /\ period \in Periods
    /\ parsed \in RunReplies
    /\ reply \in [tfr : {NoTfr}, consistency_index : {"absent", "low", "high"}]
    /\ pc = "bundle"
    /\ active_habits = <<>>
    /\ filtered = NoFiltered
    /\ outcome = NoOutcome
    /\ rerun = NoRerun
    /\ text = NoText
    /\ json_text = NoText
    /\ obj = NoObj
    /\ fenced = NoFenced
    /\ stats = NoStats
    /\ report = NoReport
    /\ failure = NoFailure
    /\ WorldIdle

NextRun ==
    \/ RunBundle
    \/ RunScriptFile

SpecRun == InitRun /\ [][NextRun]_vars

\* the indexes of the caller's habits with an entry in the window
ActiveIndexes == {i \in 1..Len(habits_all) :
                     KeptIndexes(habits_all[i].habit_log, period) # {}}

IdsOf(seq) == [k \in 1..Len(seq) |-> seq[k].habit_id]

\* C11 (ActiveHabit set): when the filter has run, the ActiveHabit list is
\* the caller's habits that have an entry in the window, in the caller's
\* order, each with the entries of the window; a habit with none is left out
\* and no error is raised for it; a run with no ActiveHabit ends as "no
\* data", and otherwise the request builder's per-habit numbers and the
\* reconciled recommendation follow that same order.
C11_ActiveHabitSet ==
    (pc = "done" /\ ~filtered.raised) =>
        /\ Len(active_habits) = Cardinality(ActiveIndexes)
        /\ \A i \in ActiveIndexes :
              LET k == Cardinality({j \in ActiveIndexes : j <= i})
              IN  /\ active_habits[k].habit_id = habits_all[i].habit_id
                  /\ IsWindowOf(active_habits[k].habit_log,
                                habits_all[i].habit_log, period)
        /\ (ActiveIndexes = {}) = (outcome.status = "nodata")
        /\ ActiveIndexes # {} =>
              /\ outcome.status = "ok"
              /\ IdsOf(stats.per_habit) = IdsOf(active_habits)
              /\ IdsOf(outcome.recommendation) = IdsOf(active_habits)

\* the first habit has entries, none in the window; the second is reported
\* although the reply put it first
C11_Witness ==
    /\ pc = "done"
    /\ outcome.by = "app"
    /\ habits_all[1].habit_log # <<>>
    /\ ActiveIndexes = {2}
    /\ IdsOf(active_habits) = <<"h2">>
    /\ parsed.kind = "list"
    /\ IdsOf(outcome.recommendation) = <<"h2">>

\* both habits are active and the reply listed them in the opposite order
C11_WitnessOrder ==
    /\ pc = "done"
    /\ ActiveIndexes = {1, 2}
    /\ parsed.kind = "list"
    /\ IdsOf(stats.per_habit) = <<"h1", "h2">>
    /\ IdsOf(outcome.recommendation) = <<"h1", "h2">>

\* C12 (the caller's input is never mutated): in every state of the run,
\* after filtering and after the whole run, the caller's habits (their
\* fields and their habit_log) equal their values before the run.
C12_InputUnchanged ==
    /\ Len(heap) >= Len(habits_all)
    /\ \A i \in 1..Len(habits_all) : heap[i] = habits_all[i]

\* a finished run whose filter dropped an entry of the first habit and whose
\* Reconciler synthesized a fallback
C12_Witness ==
    /\ pc = "done"
    /\ outcome.status = "ok"
    /\ Len(habits_all[1].habit_log) = 2
    /\ Len(active_habits) >= 1
    /\ active_habits[1].habit_id = "h1"
    /\ Len(active_habits[1].habit_log) = 1
    /\ parsed.kind = "absent"
    /\ outcome.recommendation[1].src = 0

(***************************************************************************)
(* build_prompt and build_monthly_prompt on a list of habits, logs with    *)
(* no entry included.                                                      *)
(***************************************************************************)
\* api/generate_monthly_report.py:73-83: a habit with no log is passed over
RECURSIVE MonthlyFrom(_, _, _)
MonthlyFrom(habits_data, k, acc) ==
    IF k > Len(habits_data) THEN acc
    ELSE IF habits_data[k].habit_log = <<>>
         THEN MonthlyFrom(habits_data, k + 1, acc)
         ELSE MonthlyFrom(habits_data, k + 1, AddHabit(acc, habits_data[k]))

\* build_monthly_prompt, lines 68-85
BuildMonthlyStats(habits_data) ==
    LET st == MonthlyFrom(habits_data, 1, NoStats)
    IN  [per_habit |-> st.per_habit,
         total_attempts |-> st.total_attempts,
         total_successes |-> st.total_successes,
         overall_success_rate |-> OverallSuccessRate(st)]

BuildPrompt ==
    /\ pc = "habits_data"
    /\ stats' = BuildPromptStats(habits_all)
    /\ pc' = "prompted"
    /\ UNCHANGED <<active_habits, parsed, outcome, rerun, text, json_text, obj,
                   fenced, habits_all, period, filtered, heap, reply, report,
                   failure, world>>

BuildMonthlyPrompt ==
    /\ pc = "habits_data"
    /\ stats' = BuildMonthlyStats(habits_all)
    /\ pc' = "prompted_monthly"
    /\ UNCHANGED <<active_habits, parsed, outcome, rerun, text, json_text, obj,
                   fenced, habits_all, period, filtered, heap, reply, report,
                   failure, world>>

\* the numbers of log entries a habit of the model has
AttemptCounts == {0, 1, 2, 5, 9}

\* a log of a entries, s of them completed, those first or last
LogOf(a, s, first) ==
    [j \in 1..a |->
        [date |-> <<2>>,
         completed |-> IF first THEN j <= s ELSE j > a - s]]

StatLogs ==
    UNION {{LogOf(a, s, first) : s \in {x \in {0, 1, 3, 9} : x <= a},
                                 first \in BOOLEAN} : a \in AttemptCounts}

StatIds == <<"h1", "h2", "h3", "h4">>

InitStats ==
    /\ \E n \in 0..MaxHabits :
          \E logs \in [1..n -> StatLogs] :
              habits_all = [k \in 1..n |->
                               WithLog(Habit(StatIds[k], "run", <<9, 0>>, <<10, 0>>, <<1>>),
                                       logs[k])]
    /\ pc = "habits_data"
    /\ stats = NoStats
    /\ active_habits = <<>>
    /\ parsed = [kind |-> "absent", items |-> <<>>]
    /\ outcome = NoOutcome
    /\ rerun = NoRerun
    /\ text = NoText
    /\ json_text = NoText
    /\ obj = NoObj
    /\ fenced = NoFenced
    /\ period = NoPeriod
    /\ filtered = NoFiltered
    /\ heap = NoHeap
    /\ reply = NoReply
    /\ report = NoReport
    /\ failure = NoFailure
    /\ WorldIdle

NextStats ==
    \/ BuildPrompt
    \/ BuildMonthlyPrompt

SpecStats == InitStats /\ [][NextStats]_vars

Prompted == pc \in {"prompted", "prompted_monthly"}

\* the log entries of habit i, and those with completed true
Attempts(i) == Len(habits_all[i].habit_log)

Successes(i) ==
    Cardinality({j \in 1..Attempts(i) : habits_all[i].habit_log[j].completed})

RECURSIVE SumTo(_, _)
SumTo(f, n) == IF n = 0 THEN 0 ELSE f[n] + SumTo(f, n - 1)

AllAttempts == SumTo([i \in 1..Len(habits_all) |-> Attempts(i)], Len(habits_all))

AllSuccesses == SumTo([i \in 1..Len(habits_all) |-> Successes(i)], Len(habits_all))

\* the rate r is the number p / q
RateIs(r, p, q) == r.den # 0 /\ r.num * q = p * r.den

\* the habits have exactly these (attempts, successes), in this order
CountsAre(pairs) ==
    /\ Len(habits_all) = Len(pairs)
    /\ \A i \in 1..Len(pairs) :
          Attempts(i) = pairs[i][1] /\ Successes(i) = pairs[i][2]

\* C13 (pooled overall rate): the overall success rate is the sum of the
\* successes over the sum of the attempts of all habits, times 100, not the
\* mean of the habits' rates: 1/1 and 0/9 give 10, 3/5 and 1/5 give 40.
C13_PooledRate ==
    Prompted =>
        /\ stats.total_attempts = AllAttempts
        /\ stats.total_successes = AllSuccesses
        /\ AllAttempts > 0 =>
              RateIs(stats.overall_success_rate, AllSuccesses * 100, AllAttempts)
        /\ CountsAre(<<<<1, 1>>, <<9, 0>>>>) =>
              /\ RateIs(stats.overall_success_rate, 10, 1)
              /\ ~RateIs(stats.overall_success_rate, 50, 1)
        /\ CountsAre(<<<<5, 3>>, <<5, 1>>>>) =>
              RateIs(stats.overall_success_rate, 40, 1)

\* the habits with 1/1 and 0/9
C13_Witness ==
    /\ pc = "prompted"
    /\ CountsAre(<<<<1, 1>>, <<9, 0>>>>)
    /\ RateIs(stats.overall_success_rate, 10, 1)

\* the habits with 3/5 and 1/5
C13_WitnessEven ==
    /\ Prompted
    /\ CountsAre(<<<<5, 3>>, <<5, 1>>>>)
    /\ RateIs(stats.overall_success_rate, 40, 1)

\* C14 (no division by zero): a habit with 0 attempts has success_rate
\* exactly 0, the overall rate is exactly 0 when the attempts of all habits
\* sum to 0, and otherwise attempts is the number of log entries and
\* successes the number of entries with completed true.
C14_NoDivisionByZero ==
    /\ pc = "prompted" =>
          /\ Len(stats.per_habit) = Len(habits_all)
          /\ \A i \in 1..Len(habits_all) :
                LET h == stats.per_habit[i]
                IN  /\ h.attempts = Attempts(i)
                    /\ h.successes = Successes(i)
                    /\ Attempts(i) = 0 => RateIs(h.success_rate, 0, 1)
                    /\ Attempts(i) > 0 =>
                          RateIs(h.success_rate, Successes(i) * 100, Attempts(i))
    /\ (Prompted /\ AllAttempts = 0) =>
          RateIs(stats.overall_success_rate, 0, 1)

\* a habit with no entry next to one with entries
C14_Witness ==
    /\ pc = "prompted"
    /\ Len(habits_all) = 2
    /\ Attempts(1) = 0
    /\ Attempts(2) = 2
    /\ stats.per_habit[1].success_rate = [num |-> 0, den |-> 1]

\* every habit without an entry: the overall rate is 0
C14_WitnessOverall ==
    /\ pc = "prompted"
    /\ Len(habits_all) = 2
    /\ AllAttempts = 0
    /\ stats.overall_success_rate = [num |-> 0, den |-> 1]

(***************************************************************************)
(* Consistency index of the emitted report (checked under SpecRun).        *)
(***************************************************************************)
\* the level the two thresholds give to the rate r
LevelOf(r) ==
    IF r.num >= 70 * r.den THEN "high"
    ELSE IF r.num >= 40 * r.den THEN "medium"
    ELSE "low"

\* C15 (Consistency Scorer): the emitted report carries a consistency_index
\* whose level is high when the overall success rate is at least 70, medium
\* when it is at least 40 and below 70, low below 40.
C15_ConsistencyLevel ==
    (pc = "done" /\ outcome.status = "ok") =>
        report.consistency_index = LevelOf(stats.overall_success_rate)

(***************************************************************************)
(* Failure-Reason Classifier: CATEGORY_LABELS, CATEGORY_RULES,             *)
(* normalize_reason_category and compute_per_habit_top_failure_reasons     *)
(* (api/generate_report.py:77-150).  A reason text is a sequence of        *)
(* tokens: "k1".."k6" are a keyword of the first..sixth rule, "p" and "q"  *)
(* the two words of a first-rule alternative written p\s*q, "W" one        *)
(* whitespace character and "z" any other character.                       *)
(***************************************************************************)
CATEGORY_LABELS ==
    <<"willpower", "health", "over_ambitious", "time", "schedule", "other">>

CatchAll == "other"

\* the keyword and the label of each rule, in the order of the list; the
\* sixth rule (weather words) names the catch-all label
CATEGORY_RULES ==
    <<[word |-> "k1", label |-> "willpower"],
      [word |-> "k2", label |-> "health"],
      [word |-> "k3", label |-> "over_ambitious"],
      [word |-> "k4", label |-> "time"],
      [word |-> "k5", label |-> "schedule"],
      [word |-> "k6", label |-> "other"]>>

\* re.sub(r"\s+", " ", t)
RECURSIVE CollapseWs(_)
CollapseWs(t) ==
    IF Len(t) <= 1 THEN t
    ELSE IF t[1] = "W" /\ t[2] = "W" THEN CollapseWs(Tail(t))
    ELSE <<t[1]>> \o CollapseWs(Tail(t))

\* re.search(pat, t) for the pattern of rule k
RuleMatches(k, t) ==
    \/ \E i \in 1..Len(t) : t[i] = CATEGORY_RULES[k].word
    \/ /\ k = 1
       /\ \E i \in 1..Len(t) : \E j \in (i + 1)..Len(t) :
             /\ t[i] = "p"
             /\ t[j] = "q"
             /\ \A m \in (i + 1)..(j - 1) : t[m] = "W"

\* the loop over the rules, returning at the last rule that matches
RuleLoop_last_match(t) ==
    LET hits == {k \in 1..Len(CATEGORY_RULES) : RuleMatches(k, t)}
    IN  IF hits = {} THEN CatchAll
        ELSE CATEGORY_RULES[CHOOSE k \in hits : \A m \in hits : m <= k].label

\* lines 113-116: the label of the first rule that matches, else the
\* catch-all
RuleLoop(t) ==
    LET hits == {k \in 1..Len(CATEGORY_RULES) : RuleMatches(k, t)}
    IN  IF hits = {} THEN CatchAll
        ELSE CATEGORY_RULES[CHOOSE k \in hits : \A m \in hits : k <= m].label

\* normalize_reason_category (the .lower() changes none of the tokens)
normalize_reason_category(raw) ==
    LET t == Strip(raw)
    IN  IF t = <<>> THEN CatchAll ELSE RuleLoop(CollapseWs(t))

\* lines 133-141: the Counter, as its items in insertion order; a log entry
\* counts unless its completed is True, and a reason that is no string
\* (kind "other") is passed over
CountLabel(counter, label) ==
    IF \E i \in 1..Len(counter) : counter[i].label = label
    THEN [i \in 1..Len(counter) |->
             IF counter[i].label = label
             THEN [label |-> label, n |-> counter[i].n + 1]
             ELSE counter[i]]
    ELSE Append(counter, [label |-> label, n |-> 1])

RECURSIVE CountReasons(_, _)
CountReasons(counter, reasons) ==
    IF reasons = <<>> THEN counter
    ELSE IF Head(reasons).kind # "str" THEN CountReasons(counter, Tail(reasons))
    ELSE CountReasons(CountLabel(counter, normalize_reason_category(Head(reasons).chars)),
                      Tail(reasons))

RECURSIVE CountLogs(_, _)
CountLogs(counter, logs) ==
    IF logs = <<>> THEN counter
    ELSE IF Head(logs).completed THEN CountLogs(counter, Tail(logs))
    ELSE CountLogs(CountReasons(counter, Head(logs).failure_reason), Tail(logs))

\* Counter.most_common(topk): the items by count, largest first, items with
\* equal counts in insertion order
RECURSIVE MostCommon(_, _)
MostCommon(counter, topk) ==
    IF topk = 0 \/ counter = <<>> THEN <<>>
    ELSE LET best == CHOOSE i \in 1..Len(counter) :
                        /\ \A j \in 1..Len(counter) : counter[j].n <= counter[i].n
                        /\ \A j \in 1..(i - 1) : counter[j].n < counter[i].n
             others == [j \in 1..(Len(counter) - 1) |->
                           IF j < best THEN counter[j] ELSE counter[j + 1]]
         IN  <<counter[best].label>> \o MostCommon(others, topk - 1)

TopK == 2

\* compute_per_habit_top_failure_reasons(active_habits, topk=2)
ComputeTopFailureReasons(active) ==
    [k \in 1..Len(active) |->
        [habit_id |-> active[k].habit_id,
         name |-> active[k].name,
         reasons |-> MostCommon(CountLogs(<<>>, active[k].habit_log), TopK)]]

\* normalize_reason_category on one text
ClassifyReason ==
    /\ pc = "reason"
    /\ failure' = [labels |-> <<normalize_reason_category(text.chars)>>, top |-> <<>>]
    /\ pc' = "classified"
    /\ UNCHANGED <<active_habits, parsed, outcome, rerun, text, json_text, obj,
                   fenced, habits_all, period, filtered, heap, stats, reply,
                   report, world>>

\* compute_per_habit_top_failure_reasons on the ActiveHabits
TopFailureReasons ==
    /\ pc = "failed_logs"
    /\ failure' = [labels |-> <<>>, top |-> ComputeTopFailureReasons(active_habits)]
    /\ pc' = "counted"
    /\ UNCHANGED <<active_habits, parsed, outcome, rerun, text, json_text, obj,
                   fenced, habits_all, period, filtered, heap, stats, reply,
                   report, world>>

ReasonTokens == {"k1", "k2", "k3", "k4", "k5", "k6", "p", "q", "W", "z"}

InitClassify ==
    /\ pc = "reason"
    /\ text \in {StrValue(c) : c \in SeqsUpTo(ReasonTokens, MaxReasonLen)}
    /\ active_habits = <<>>
    /\ failure = NoFailure
    /\ WorldIdle
    /\ parsed = [kind |-> "absent", items |-> <<>>]
    /\ outcome = NoOutcome
    /\ rerun = NoRerun
    /\ json_text = NoText
    /\ obj = NoObj
    /\ fenced = NoFenced
    /\ habits_all = <<>>
    /\ period = NoPeriod
    /\ filtered = NoFiltered
    /\ heap = NoHeap
    /\ stats = NoStats
    /\ reply = NoReply
    /\ report = NoReport

NextClassify == ClassifyReason

SpecClassify == InitClassify /\ [][NextClassify]_vars

\* the reasons a log entry of the model gives: a text of the first, second
\* and fourth rule, a weather text, two texts no rule matches, and a value
\* that is no string
LogReasons ==
    {[kind |-> "str", chars |-> c] :
        c \in {<<"k1">>, <<"k2", "z">>, <<"z", "k4">>, <<"k6">>, <<"z">>, <<"z", "z">>}}
    \cup {[kind |-> "other", chars |-> <<>>]}

\* failed entries with up to MaxReasons reasons, and a completed entry
FailureLogs ==
    [date : {<<2>>}, completed : {FALSE},
     failure_reason : SeqsUpTo(LogReasons, MaxReasons)]
    \cup {[date |-> <<2>>, completed |-> TRUE,
           failure_reason |-> <<[kind |-> "str", chars |-> <<"k1">>]>>]}

InitTop ==
    /\ pc = "failed_logs"
    /\ text = NoText
    /\ \E logs \in SeqsUpTo(FailureLogs, MaxLogs) :
          active_habits = <<WithLog(PoolHabit("h1"), logs)>>
    /\ failure = NoFailure
    /\ WorldIdle
    /\ parsed = [kind |-> "absent", items |-> <<>>]
    /\ outcome = NoOutcome
    /\ rerun = NoRerun
    /\ json_text = NoText
    /\ obj = NoObj
    /\ fenced = NoFenced
    /\ habits_all = <<>>
    /\ period = NoPeriod
    /\ filtered = NoFiltered
    /\ heap = NoHeap
    /\ stats = NoStats
    /\ reply = NoReply
    /\ report = NoReport

NextTop == TopFailureReasons

SpecTop == InitTop /\ [][NextTop]_vars

HasWord(raw, w) == \E i \in 1..Len(raw) : raw[i] = w

\* the two-word alternative of the first rule: p, blanks or none, then q
HasPhrase(raw) ==
    \E i \in 1..Len(raw) : \E j \in (i + 1)..Len(raw) :
        /\ raw[i] = "p"
        /\ raw[j] = "q"
        /\ \A m \in (i + 1)..(j - 1) : raw[m] = "W"

\* the category the fixed priority order gives to a text
FirstCategory(raw) ==
    IF HasWord(raw, "k1") \/ HasPhrase(raw) THEN "willpower"
    ELSE IF HasWord(raw, "k2") THEN "health"
    ELSE IF HasWord(raw, "k3") THEN "over_ambitious"
    ELSE IF HasWord(raw, "k4") THEN "time"
    ELSE IF HasWord(raw, "k5") THEN "schedule"
    ELSE CatchAll

\* C16 (classifier priority): classify returns the category of the first
\* rule, in the order willpower, health, over-ambitious goal, time scarcity,
\* schedule conflict, other, whose pattern matches the text; a text no rule
\* matches and an empty or whitespace-only text get the catch-all.
C16_FirstMatchWins ==
    pc = "classified" => failure.labels = <<FirstCategory(text.chars)>>

\* a text with a time word before a health word is a health reason
C16_Witness ==
    /\ pc = "classified"
    /\ text.chars = <<"k4", "W", "k2">>
    /\ failure.labels = <<"health">>

\* a whitespace-only text gets the catch-all
C16_WitnessBlank ==
    /\ pc = "classified"
    /\ text.chars = <<"W", "W">>
    /\ failure.labels = <<CatchAll>>


\* the reason texts of the failed entries of a log, in log order
RECURSIVE FailedTexts(_)
FailedTexts(logs) ==
    IF logs = <<>> THEN <<>>
    ELSE (IF Head(logs).completed THEN <<>>
          ELSE SelectSeq(Head(logs).failure_reason, LAMBDA r : r.kind = "str"))
         \o FailedTexts(Tail(logs))

\* how often category c occurs among the failed entries of a log
CategoryCount(logs, c) ==
    LET texts == FailedTexts(logs)
    IN  Cardinality({j \in 1..Len(texts) : FirstCategory(texts[j].chars) = c})

PriorityOf(c) == CHOOSE k \in 1..Len(CATEGORY_LABELS) : CATEGORY_LABELS[k] = c

\* category a ranks before category b: more occurrences, or as many and an
\* earlier place in the fixed priority order
RanksBefore(logs, a, b) ==
    \/ CategoryCount(logs, a) > CategoryCount(logs, b)
    \/ /\ CategoryCount(logs, a) = CategoryCount(logs, b)
       /\ PriorityOf(a) < PriorityOf(b)

PresentCategories(logs) ==
    {c \in Range(CATEGORY_LABELS) : CategoryCount(logs, c) > 0}

RankOf(logs, c) ==
    1 + Cardinality({d \in PresentCategories(logs) : RanksBefore(logs, d, c)})

\* the catch-all is among the top K whatever breaks the ties
CatchAllInTopK(logs) ==
    /\ CategoryCount(logs, CatchAll) > 0
    /\ Cardinality({d \in PresentCategories(logs) \ {CatchAll} :
           CategoryCount(logs, d) >= CategoryCount(logs, CatchAll)}) < TopK

\* C17 (catch-all text retention): when the catch-all category is among a
\* habit's top-K categories, the reported reasons hold original texts of
\* the catch-all reasons instead of the generic catch-all label.
C17_CatchAllTextRetained ==
    pc = "counted" =>
        \A k \in 1..Len(active_habits) :
            CatchAllInTopK(active_habits[k].habit_log) =>
                /\ CatchAll \notin Range(failure.top[k].reasons)
                /\ \E r \in Range(failure.top[k].reasons) :
                      r \notin Range(CATEGORY_LABELS)

\* C18 (per-habit top-K): the reported reasons are the K = 2 categories
\* with the highest counts over the failed log entries, categories with
\* equal counts in the fixed priority order, whatever the order of the
\* reasons in the log.
C18_TopKByPriority ==
    pc = "counted" =>
        \A k \in 1..Len(active_habits) :
            LET logs == active_habits[k].habit_log
                reasons == failure.top[k].reasons
                n == Cardinality(PresentCategories(logs))
            IN  /\ Len(reasons) = IF n < TopK THEN n ELSE TopK
                /\ \A m \in 1..Len(reasons) : RankOf(logs, reasons[m]) = m

(***************************************************************************)
(* The Attacher on replies whose top_failure_reasons has every shape.      *)
(***************************************************************************)
MaxFailures == 2

\* the habits of HabitPool, one whose name contains another's, one unnamed
AttachPool ==
    HabitPool \cup
    { Habit("h4", "a run", <<6, 0>>, <<6, 30>>, <<2>>),
      Habit("h5", "", <<12, 0>>, <<12, 30>>, <<1>>) }

AttachLists ==
    {s \in SeqsUpTo(AttachPool, MaxHabits) :
        /\ Len(s) >= 1
        /\ \A i, j \in 1..Len(s) : i # j => s[i].habit_id # s[j].habit_id}

\* the (name, habit) keys of an entry of top_failure_reasons
FailureNames ==
    { <<"", "">>, <<"RUN", "">>, <<"read b", "">>, <<"un", "">>,
      <<"swim", "read">> }

\* an entry without id or with a foreign one under each name, one with the
\* id of a habit, and an element that is no object
FailureShapes ==
    {[kind |-> "obj", habit_id |-> id, name |-> nm[1], habit |-> nm[2]] :
        id \in {NoneId, "x9"}, nm \in FailureNames}
    \cup {[kind |-> "obj", habit_id |-> "h2", name |-> "RUN", habit |-> ""]}
    \cup {[kind |-> "other", habit_id |-> NoneId, name |-> "", habit |-> ""]}

FailureEntry(shape, pos) ==
    [kind |-> shape.kind, habit_id |-> shape.habit_id, name |-> shape.name,
     habit |-> shape.habit, src |-> IF shape.kind = "obj" THEN pos ELSE 0]

FailureList(shapes) == [i \in 1..Len(shapes) |-> FailureEntry(shapes[i], i)]

\* parsed["top_failure_reasons"] or parsed["top_failure_reason"]: missing,
\* a scalar, a bare object, or a list
FailureValues ==
    {NoTfr}
    \cup {[key |-> k, kind |-> "scalar", items |-> <<>>] :
            k \in {"plural", "singular"}}
    \cup {[key |-> k, kind |-> "dict", items |-> FailureList(<<sh>>)] :
            k \in {"plural", "singular"},
            sh \in {x \in FailureShapes : x.kind = "obj"}}
    \cup {[key |-> "plural", kind |-> "list", items |-> FailureList(shapes)] :
            shapes \in SeqsUpTo(FailureShapes, MaxFailures)}
    \cup {[key |-> "singular", kind |-> "list", items |-> FailureList(shapes)] :
            shapes \in SeqsUpTo(FailureShapes, 1)}

InitAttach ==
    /\ active_habits \in AttachLists
    /\ parsed = [kind |-> "absent", items |-> <<>>]
    /\ reply \in [tfr : FailureValues, consistency_index : {"absent"}]
    /\ pc = "parsed"
    /\ outcome = NoOutcome
    /\ rerun = NoRerun
    /\ text = NoText
    /\ json_text = NoText
    /\ obj = NoObj
    /\ fenced = NoFenced
    /\ habits_all = <<>>
    /\ period = NoPeriod
    /\ filtered = NoFiltered
    /\ heap = NoHeap
    /\ stats = NoStats
    /\ report = NoReport
    /\ failure = NoFailure
    /\ WorldIdle

SpecAttach == InitAttach /\ [][Next]_vars

\* the app has answered a reply whose top_failure_reasons is a list, or a
\* bare object the handler turns into one
Attached ==
    /\ pc = "done"
    /\ outcome.by = "app"
    /\ reply.tfr.kind \in {"list", "dict"}

\* C19: after the Attacher has run, every entry of top_failure_reasons is an
\* object that carries the habit_id of an ActiveHabit, whatever the entries
\* of the reply were (no id, a foreign id, elements that are no objects).
C19_EveryEntryValidId ==
    Attached =>
        /\ report.top_failure_reasons.kind = "list"
        /\ \A i \in 1..Len(report.top_failure_reasons.items) :
              /\ report.top_failure_reasons.items[i].kind = "obj"
              /\ report.top_failure_reasons.items[i].habit_id
                     \in ValidIdSet(active_habits)

\* the name an entry is looked up by
EntryName(it) == IF it.habit # "" THEN it.habit ELSE it.name

\* a name case-folded, and trimmed first when strip is set
Folded(s, strip) == IF strip THEN Lower(Strip(Chars(s))) ELSE Lower(Chars(s))

\* the ActiveHabits whose name equals the entry's name
SameName(it, active, strip) ==
    {k \in 1..Len(active) :
        /\ active[k].name # ""
        /\ Folded(active[k].name, strip) = Folded(EntryName(it), strip)}

\* the ActiveHabits whose name contains the entry's name or is contained in it
Containing(it, active, strip) ==
    {k \in 1..Len(active) :
        /\ active[k].name # ""
        /\ Folded(EntryName(it), strip) # <<>>
        /\ \/ IsSubstring(Folded(EntryName(it), strip), Folded(active[k].name, strip))
           \/ IsSubstring(Folded(active[k].name, strip), Folded(EntryName(it), strip))}

\* the ids the resolution order allows for an entry without a valid id
Allowed(it, active, strip) ==
    IF SameName(it, active, strip) # {}
    THEN {active[k].habit_id : k \in SameName(it, active, strip)}
    ELSE IF Containing(it, active, strip) # {}
    THEN {active[k].habit_id : k \in Containing(it, active, strip)}
    ELSE {active[1].habit_id}

ResolvedInOrder(it, o, active, strip) ==
    IF it.kind # "obj" THEN TRUE
    ELSE IF it.habit_id \in ValidIdSet(active) THEN o = it
    ELSE /\ o = [it EXCEPT !.habit_id = o.habit_id]
         /\ o.habit_id \in Allowed(it, active, strip)

C20_WitnessTrimmed ==
    /\ Attached
    /\ \E i \in 1..Len(reply.tfr.items) :
          /\ reply.tfr.items[i].kind = "obj"
          /\ reply.tfr.items[i].habit_id \notin ValidIdSet(active_habits)
          /\ SameName(reply.tfr.items[i], active_habits, FALSE) # {}
          /\ report.top_failure_reasons.items[i].habit_id
                 \notin Allowed(reply.tfr.items[i], active_habits, FALSE)

\* every step of the order is taken by some entry of one reply
C20_WitnessValidKept ==
    /\ Attached
    /\ \E i \in 1..Len(reply.tfr.items) :
          /\ reply.tfr.items[i].habit_id \in ValidIdSet(active_habits)
          /\ report.top_failure_reasons.items[i] = reply.tfr.items[i]
    /\ \E i \in 1..Len(reply.tfr.items) :
          /\ reply.tfr.items[i].kind = "obj"
          /\ reply.tfr.items[i].habit_id \notin ValidIdSet(active_habits)
          /\ SameName(reply.tfr.items[i], active_habits, TRUE) = {}
          /\ Containing(reply.tfr.items[i], active_habits, TRUE) = {}
          /\ report.top_failure_reasons.items[i].habit_id = active_habits[1].habit_id

(***************************************************************************)
(* The Reconciler, entry by entry.                                         *)
(***************************************************************************)
\* the entry of the reply that output entry o was, when it came from there
FromReply(o) == o.src # 0

\* the reconciled list of a run that ended with a report
Reconciled == pc = "done" /\ outcome.status = "ok"

\* the habits whose name equals the entry's, case-folded, and trimmed first
\* when trim is set
NamedAs(rec, active, trim) ==
    {k \in 1..Len(active) :
        /\ rec.name # ""
        /\ IF trim
           THEN StrLower(StrStrip(active[k].name)) = StrLower(StrStrip(rec.name))
           ELSE StrLower(active[k].name) = StrLower(rec.name)}

\* the id an entry has after repair
RepairedId(rec, active, trim) ==
    IF rec.habit_id \in ValidIdSet(active) THEN rec.habit_id
    ELSE IF NamedAs(rec, active, trim) = {} THEN active[1].habit_id
    ELSE active[CHOOSE k \in NamedAs(rec, active, trim) :
                    \A j \in NamedAs(rec, active, trim) : k <= j].habit_id

\* every output entry that came from the reply is that entry with its id
\* repaired, and untouched when its id was valid
RepairedAs(trim) ==
    \A k \in 1..Len(outcome.recommendation) :
        LET o == outcome.recommendation[k]
        IN  FromReply(o) =>
              o = [parsed.items[o.src] EXCEPT
                     !.habit_id = RepairedId(parsed.items[o.src], active_habits, trim)]

\* C26 as stated: an entry with a foreign id gets the id of the first
\* ActiveHabit whose name equals the entry's name case-insensitively, or of
\* the first ActiveHabit when none does or the entry has no name; an entry
\* with a valid id is not rewritten.
C26_IdRepairLiteral == Reconciled => RepairedAs(FALSE)

\* C26, amended: the same, the app comparing the names once both are trimmed
\* of surrounding whitespace as well as case-folded.
C26_IdRepair == Reconciled => RepairedAs(outcome.by = "app")

\* two habits of the entry's name: the foreign entry goes to the first one
C26_Witness ==
    /\ Reconciled
    /\ Len(active_habits) = 2
    /\ \E i \in 1..Len(parsed.items) :
          /\ parsed.items[i].kind = "obj"
          /\ parsed.items[i].habit_id \notin ValidIdSet(active_habits)
          /\ Cardinality(NamedAs(parsed.items[i], active_habits,
                                 outcome.by = "app")) = 2
          /\ outcome.recommendation[1].src = i

\* an entry whose name no habit has goes to the first habit, next to an
\* entry that kept its valid id
C26_WitnessNoName ==
    /\ Reconciled
    /\ Len(active_habits) = 2
    /\ Len(parsed.items) = 2
    /\ parsed.items[1].habit_id = active_habits[2].habit_id
    /\ parsed.items[2].habit_id = "x9"
    /\ NamedAs(parsed.items[2], active_habits, outcome.by = "app") = {}
    /\ outcome.recommendation[1].src = 2
    /\ outcome.recommendation[2] = parsed.items[1]

\* the reply's recommendation list as the Reconciler takes it: the app turns
\* a bare object into a one-element list, anything else that is no list is
\* an empty list
TakenList ==
    IF parsed.kind = "list" \/ (parsed.kind = "dict" /\ outcome.by = "app")
    THEN parsed.items
    ELSE <<>>

\* the entries of the reply that carry id hid after repair
RepairedTo(hid) ==
    {i \in 1..Len(TakenList) :
        RepairedId(TakenList[i], active_habits, outcome.by = "app") = hid}

\* the entries of the reply that carried id hid when the reply came
GenuineFor(hid) == {i \in 1..Len(TakenList) : TakenList[i].habit_id = hid}

Earliest(S) == CHOOSE i \in S : \A j \in S : i <= j

\* C27 (first seen wins): when several entries of the reply carry the same
\* habit_id after id repair, the output entry of that habit is the earliest
\* of them in the reply's list, and none of the later ones is in the output.
C27_FirstSeenWins ==
    Reconciled =>
        \A k \in 1..Len(active_habits) :
            LET S == RepairedTo(active_habits[k].habit_id)
            IN  S # {} =>
                  /\ outcome.recommendation[k].src = Earliest(S)
                  /\ \A n \in 1..Len(outcome.recommendation) :
                        outcome.recommendation[n].src \in S => n = k

\* two entries end on the second habit, one by repair and one genuine; the
\* earlier one is the output entry and the first habit gets a fallback
C27_Witness ==
    /\ Reconciled
    /\ Len(active_habits) = 2
    /\ RepairedTo(active_habits[2].habit_id) = {1, 2}
    /\ TakenList[1].habit_id # TakenList[2].habit_id
    /\ outcome.recommendation[2].src = 1
    /\ outcome.recommendation[1].src = 0

\* C28 (genuine entries are not displaced): when the reply holds an entry
\* that already carries the id of ActiveHabit h, the output entry of h is the
\* first entry of the reply that carried h's id, never an entry that was
\* given h's id by repair and never a fallback.
C28_GenuineNotDisplaced ==
    Reconciled =>
        \A k \in 1..Len(active_habits) :
            LET G == GenuineFor(active_habits[k].habit_id)
            IN  G # {} => outcome.recommendation[k].src = Earliest(G)

\* C29 (the fallback stays within the day): the fallback of a habit with
\* HH:MM times ends later than it starts on the same day, also when the
\* habit starts in the last minutes of the day.
C29_FallbackSameDay ==
    \A k \in 1..Len(active_habits) :
        (/\ IsFallback(k)
         /\ ParsesHHMM(active_habits[k].start_time)
         /\ ParsesHHMM(active_habits[k].end_time)) =>
            MinuteOfDay(outcome.recommendation[k].end_time)
                > MinuteOfDay(outcome.recommendation[k].start_time)

(***************************************************************************)
(* One name in both lists of a reply: a recommendation entry and a failure *)
(* entry that carry the same name and the same invalid id.                 *)
(***************************************************************************)
SharedNames == {"", "RUN", "un", "read b", "swim"}

InitResolve ==
    /\ active_habits \in AttachLists
    /\ \E nm \in SharedNames, id \in {NoneId, "x9"} :
          /\ parsed = [kind |-> "list",
                       items |-> ReplyList(<<[kind |-> "obj", habit_id |-> id,
                                              name |-> nm]>>)]
          /\ reply = [tfr |-> [key |-> "plural", kind |-> "list",
                               items |-> FailureList(
                                   <<[kind |-> "obj", habit_id |-> id,
                                      name |-> nm, habit |-> ""]>>)],
                      consistency_index |-> "absent"]
    /\ pc = "parsed"
    /\ outcome = NoOutcome
    /\ rerun = NoRerun
    /\ text = NoText
    /\ json_text = NoText
    /\ obj = NoObj
    /\ fenced = NoFenced
    /\ habits_all = <<>>
    /\ period = NoPeriod
    /\ filtered = NoFiltered
    /\ heap = NoHeap
    /\ stats = NoStats
    /\ report = NoReport
    /\ failure = NoFailure
    /\ WorldIdle

SpecResolve == InitResolve /\ [][Next]_vars

\* C30 (consistent name resolution): the Reconciler and the Attacher give an
\* entry name with an invalid habit_id the id of the same ActiveHabit, also
\* when two habits have the same name up to case and surrounding whitespace.
C30_SameResolution ==
    (Reconciled /\ outcome.by = "app") =>
        \A k \in 1..Len(outcome.recommendation) :
            outcome.recommendation[k].src = 1 =>
                outcome.recommendation[k].habit_id
                    = report.top_failure_reasons.items[1].habit_id

(***************************************************************************)
(* The batch run over the files of data/                                   *)
(*   app:    run_from_data and _generate_for_user_bundle                   *)
(*           (app/main.py:362-403, 284-343)                                *)
(*   script: main (api/generate_report.py:331-478)                         *)
(* A bundle is [user_id, habits, answer]; answer is what the external      *)
(* service gives back for that user's prompt: kind "json" is a text that   *)
(* holds a JSON object whose recommendation is the field recommendation,   *)
(* "nonobject" a JSON text that is no object, "garbage" a text that is no  *)
(* JSON, and "transport" a failed or timed-out request, for which          *)
(* call_gemini returns the text "[API ...]: ..." (lines 273-279).          *)
(* An entry of the batch result is [user, kind, error, fields, raw,        *)
(* recommendation]: for the app an item of results, for the script the     *)
(* report file it wrote; fields are the keys of the record, raw says       *)
(* whether the raw reply was stored along with it.                         *)
(***************************************************************************)
MaxBundles == 2

\* json.loads(extract_json_safely(response)) returns a dict
ParsesAsObject(answer) == answer.kind = "json"

AppErrorFields == {"user_id", "nickname", "type", "error"}

AppReportFields ==
    {"user_id", "nickname", "type", "start_date", "end_date", "recommendation"}

ScriptReportFields == {"start_date", "end_date", "recommendation"}

ScriptFallbackFields == {"start_date", "end_date", "error", "raw_response_path"}

\* run_from_data, lines 386-392: the item built from an HTTPException
AppErrorEntry(user, detail) ==
    [user |-> user, kind |-> "error", error |-> detail,
     fields |-> AppErrorFields, raw |-> FALSE, recommendation |-> <<>>]

\* api/generate_report.py:455-472: the raw reply goes to its own file, the
\* fallback record to the report file
ScriptFallbackEntry(user) ==
    [user |-> user, kind |-> "error", error |-> "parse failed",
     fields |-> ScriptFallbackFields, raw |-> TRUE, recommendation |-> <<>>]

\* lines 304-306 and 386-392, no ActiveHabit: HTTPException(404) becomes an
\* item; otherwise the run goes on to the external call
AppFilterStep ==
    /\ runner = "app"
    /\ pc = "next"
    /\ cursor <= Len(bundles)
    /\ LET b == bundles[cursor]
           f == FilterHabitsByDateRange(b.habits, period.start, period.end)
       IN  /\ filtered' = f
           /\ active_habits' = f.habits
           /\ IF f.habits = <<>>
              THEN /\ outcome' = [by |-> "app", status |-> "nodata",
                                  recommendation |-> <<>>]
                   /\ results' = Append(results, AppErrorEntry(b.user_id, "no data"))
                   /\ cursor' = cursor + 1
                   /\ pc' = "next"
              ELSE /\ pc' = "call"
                   /\ UNCHANGED <<outcome, results, cursor>>
    /\ UNCHANGED <<parsed, rerun, text, json_text, obj, fenced, habits_all,
                   period, heap, stats, reply, report, failure,
                   bundles, calls, runner, frames, clock>>

\* api/generate_report.py:358-363: the ValueError of a malformed date is not
\* caught by `except KeyError` and ends main; no ActiveHabit prints a notice
\* and goes to the next file
ScriptFilterStep ==
    /\ runner = "script"
    /\ pc = "next"
    /\ cursor <= Len(bundles)
    /\ LET b == bundles[cursor]
           f == MinutesFilterCopy(b.habits, period.end, period.end - period.start)
       IN  /\ filtered' = f
           /\ active_habits' = f.habits
           /\ IF f.raised
              THEN /\ outcome' = [by |-> "script", status |-> "crash",
                                  recommendation |-> <<>>]
                   /\ pc' = "aborted"
                   /\ UNCHANGED cursor
              ELSE IF f.habits = <<>>
              THEN /\ outcome' = [by |-> "script", status |-> "nodata",
                                  recommendation |-> <<>>]
                   /\ cursor' = cursor + 1
                   /\ pc' = "next"
              ELSE /\ pc' = "call"
                   /\ UNCHANGED <<outcome, cursor>>
    /\ UNCHANGED <<parsed, rerun, text, json_text, obj, fenced, habits_all,
                   period, heap, stats, reply, report, failure,
                   bundles, results, calls, runner, frames, clock>>

\* response = call_gemini(prompt)
CallGemini ==
    /\ pc = "call"
    /\ calls' = Append(calls, bundles[cursor].user_id)
    /\ pc' = "called"
    /\ UNCHANGED <<active_habits, parsed, outcome, rerun, text, json_text, obj,
                   fenced, habits_all, period, filtered, heap, stats, reply,
                   report, failure, bundles, results, cursor, runner, frames,
                   clock>>

\* app/main.py:320-343 and 385-399: the report, or the item of the
\* HTTPException(500) every other exception becomes
AppFinishStep ==
    /\ runner = "app"
    /\ pc = "called"
    /\ LET b == bundles[cursor]
           resp == AppResponse(b.answer.recommendation, NoReply, active_habits)
           o == IF ParsesAsObject(b.answer) THEN resp.outcome
                ELSE [by |-> "app", status |-> "error", recommendation |-> <<>>]
       IN  /\ outcome' = o
           /\ parsed' = b.answer.recommendation
           /\ results' = Append(results,
                 IF o.status = "ok"
                 THEN [user |-> b.user_id, kind |-> "report", error |-> "",
                       fields |-> AppReportFields, raw |-> FALSE,
                       recommendation |-> o.recommendation]
                 ELSE AppErrorEntry(b.user_id, "generation failed"))
    /\ cursor' = cursor + 1
    /\ pc' = "next"
    /\ UNCHANGED <<active_habits, rerun, text, json_text, obj, fenced,
                   habits_all, period, filtered, heap, stats, reply, report,
                   failure, bundles, calls, runner, frames, clock>>

\* api/generate_report.py:381-472: the report file, or the fallback file
\* written by `except Exception`
ScriptFinishStep ==
    /\ runner = "script"
    /\ pc = "called"
    /\ LET b == bundles[cursor]
           resp == ScriptResponse(b.answer.recommendation, NoReply, active_habits)
           o == IF ParsesAsObject(b.answer) THEN resp.outcome
                ELSE [by |-> "script", status |-> "error", recommendation |-> <<>>]
       IN  /\ outcome' = o
           /\ parsed' = b.answer.recommendation
           /\ results' = Append(results,
                 IF o.status = "ok"
                 THEN [user |-> b.user_id, kind |-> "report", error |-> "",
                       fields |-> ScriptReportFields, raw |-> FALSE,
                       recommendation |-> o.recommendation]
                 ELSE ScriptFallbackEntry(b.user_id))
    /\ cursor' = cursor + 1
    /\ pc' = "next"
    /\ UNCHANGED <<active_habits, rerun, text, json_text, obj, fenced,
                   habits_all, period, filtered, heap, stats, reply, report,
                   failure, bundles, calls, runner, frames, clock>>

\* the loop over os.listdir(INPUT_DIR) is exhausted
BatchEnd ==
    /\ pc = "next"
    /\ cursor > Len(bundles)
    /\ pc' = "finished"
    /\ UNCHANGED <<active_habits, parsed, outcome, rerun, text, json_text, obj,
                   fenced, habits_all, period, filtered, rest>>

\* the logs a user's habit may have, for the window [2, 3]: an entry inside
\* it, one before it, none, a malformed date next to an entry inside it, and
\* a malformed date alone
BatchLogs ==
    { <<[date |-> <<2>>, completed |-> TRUE]>>,
      <<[date |-> <<1>>, completed |-> FALSE]>>,
      <<>>,
      <<[date |-> <<>>, completed |-> FALSE], [date |-> <<3>>, completed |-> TRUE]>>,
      <<[date |-> <<>>, completed |-> TRUE]>> }

BatchAnswers ==
    { [kind |-> "json", recommendation |-> [kind |-> "absent", items |-> <<>>]],
      [kind |-> "json",
       recommendation |-> [kind |-> "list",
           items |-> ReplyList(<<[kind |-> "obj", habit_id |-> "x9", name |-> "RUN"]>>)]],
      [kind |-> "json",
       recommendation |-> [kind |-> "list",
           items |-> ReplyList(<<[kind |-> "other", habit_id |-> NoneId, name |-> ""]>>)]],
      [kind |-> "nonobject", recommendation |-> [kind |-> "absent", items |-> <<>>]],
      [kind |-> "garbage", recommendation |-> [kind |-> "absent", items |-> <<>>]],
      [kind |-> "transport", recommendation |-> [kind |-> "absent", items |-> <<>>]] }

\* the bundle of user u: one habit with the given log
BundleOf(u, logs, answer) ==
    [user_id |-> u, habits |-> <<WithLog(PoolHabit("h1"), logs)>>, answer |-> answer]

Batches(n) ==
    {[i \in 1..n |-> BundleOf(i, ls[i], as[i])] :
        ls \in [1..n -> BatchLogs], as \in [1..n -> BatchAnswers]}

InitBatch ==
    /\ \E n \in 1..MaxBundles : bundles \in Batches(n)
    /\ runner \in {"app", "script"}
    /\ period = [start |-> 2, end |-> 3]
    /\ cursor = 1
    /\ results = <<>>
    /\ calls = <<>>
    /\ frames = <<>>
    /\ clock = 0
    /\ pc = "next"
    /\ active_habits = <<>>
    /\ parsed = [kind |-> "absent", items |-> <<>>]
    /\ outcome = NoOutcome
    /\ rerun = NoRerun
    /\ text = NoText
    /\ json_text = NoText
    /\ obj = NoObj
    /\ fenced = NoFenced
    /\ habits_all = <<>>
    /\ filtered = NoFiltered
    /\ heap = NoHeap
    /\ stats = NoStats
    /\ reply = NoReply
    /\ report = NoReport
    /\ failure = NoFailure

NextBatch ==
    \/ AppFilterStep
    \/ ScriptFilterStep
    \/ CallGemini
    \/ AppFinishStep
    \/ ScriptFinishStep
    \/ BatchEnd

SpecBatch == InitBatch /\ [][NextBatch]_vars

\* no habit of the bundle has a log entry dated inside the report period
NoDataBundle(b) ==
    \A i \in 1..Len(b.habits) : KeptIndexes(b.habits[i].habit_log, period) = {}

\* the bundle the batch loop stands at
AtBundle == pc = "next" /\ cursor <= Len(bundles)

\* C21 (no data): when no habit of a user has a log entry inside the report
\* period, that user's run ends with the no-data outcome, which is not the
\* parse-failure error, and the external service is never called for that
\* user.
C21_NoData ==
    /\ [](\A i \in 1..Len(bundles) :
             NoDataBundle(bundles[i]) => bundles[i].user_id \notin Range(calls))
    /\ [][(AtBundle /\ NoDataBundle(bundles[cursor])) =>
             (outcome'.status = "nodata" /\ calls' = calls)]_vars

\* the entry the batch result holds for the i-th bundle
EntryOfBundle(i) ==
    {k \in 1..Len(results) : results[k].user = bundles[i].user_id}

\* C22 (batch isolation): the batch is never aborted, and when it ends every
\* bundle has exactly one entry in the batch result, a report or an entry
\* that tells the failure, whatever happened to the other users.
C22_BatchIsolation ==
    /\ pc # "aborted"
    /\ pc = "finished" =>
          \A i \in 1..Len(bundles) : Cardinality(EntryOfBundle(i)) = 1

\* C23 (unparseable reply): for a reply that does not parse as a JSON object
\* the run emits a fallback record with the period's start_date and
\* end_date, a parse-failure error field, and the raw reply.
C23_UnparseableFallback ==
    \A i \in 1..Len(bundles) :
        \A k \in EntryOfBundle(i) :
            (~NoDataBundle(bundles[i]) /\ ~ParsesAsObject(bundles[i].answer)) =>
                /\ results[k].kind = "error"
                /\ {"start_date", "end_date", "error"} \subseteq results[k].fields
                /\ results[k].raw

(***************************************************************************)
(* The report period                                                       *)
(*   app:    _decide_period, _prev_week_period, _prev_month_period,        *)
(*           _normalize_date (app/main.py:90-146)                          *)
(*   script: main (api/generate_report.py:350-366)                         *)
(* A date is the number of its day, day 1 being Monday 2018-01-01; the     *)
(* years of the model, 2018 and 2019, have 365 days.  A date string is     *)
(* [day, form]: form "padded" is YYYY-MM-DD as str(date) prints it, "bare" *)
(* the same date without leading zeros, which strptime accepts too,        *)
(* "malformed" a text strptime rejects and "none" a missing or empty value.*)
(***************************************************************************)
DaysPerYear == 365
DaysPerWeek == 7
WeeklyDays == 7
MonthlyDays == 30

MonthLengths == <<31, 28, 31, 30, 31, 30, 31, 31, 30, 31, 30, 31>>

RECURSIVE DaysBeforeMonth(_)
DaysBeforeMonth(m) ==
    IF m = 1 THEN 0 ELSE DaysBeforeMonth(m - 1) + MonthLengths[m - 1]

\* date(year, month, 1)
FirstOfMonth(year, month) == (year - 1) * DaysPerYear + DaysBeforeMonth(month) + 1

YearOf(d) == ((d - 1) \div DaysPerYear) + 1

MonthOf(d) ==
    CHOOSE m \in 1..12 :
        /\ FirstOfMonth(YearOf(d), m) <= d
        /\ d < FirstOfMonth(YearOf(d), m) + MonthLengths[m]

\* date.isoweekday(): Monday is 1
isoweekday(d) == ((d - 1) % DaysPerWeek) + 1

\* _prev_week_period: Monday to Sunday of the week before today's
prev_week_period(d) ==
    LET this_monday == d - (isoweekday(d) - 1)
        prev_monday == this_monday - DaysPerWeek
    IN  [start |-> prev_monday, end |-> prev_monday + (DaysPerWeek - 1)]

\* _prev_month_period: first to last day of the month before today's
prev_month_period(d) ==
    LET year == IF MonthOf(d) = 1 THEN YearOf(d) - 1 ELSE YearOf(d)
        month == IF MonthOf(d) = 1 THEN 12 ELSE MonthOf(d) - 1
    IN  [start |-> FirstOfMonth(year, month),
         end |-> FirstOfMonth(year, month) + MonthLengths[month] - 1]

\* (bundle.get("type") or "monthly").lower()
TypeOf(b) ==
    CASE b.type = "none" -> "monthly"
      [] b.type = "WEEKLY" -> "weekly"
      [] OTHER -> b.type

\* _normalize_date raises ValueError
NormalizeRaises(s) == s.form = "malformed"

\* _normalize_date: None for a missing value (0 here), else the date
normalize_date(s) == IF s.form = "none" THEN 0 ELSE s.day

\* _decide_period, given what datetime.today() returns
decide_period(b, d) ==
    IF normalize_date(b.start_date) # 0 /\ normalize_date(b.end_date) # 0
    THEN [start |-> normalize_date(b.start_date), end |-> normalize_date(b.end_date)]
    ELSE IF TypeOf(b) = "weekly" THEN prev_week_period(d)
    ELSE prev_month_period(d)

\* api/generate_report.py:355
filter_days(b) == IF TypeOf(b) = "weekly" THEN WeeklyDays ELSE MonthlyDays

\* app/main.py:297: the period of the run; a malformed date ends the run
\* with HTTPException(500)
DecidePeriod ==
    /\ pc = "bundle"
    /\ runner = "app"
    /\ LET b == bundles[1]
       IN  IF NormalizeRaises(b.start_date) \/ NormalizeRaises(b.end_date)
           THEN /\ outcome' = [by |-> "app", status |-> "error",
                               recommendation |-> <<>>]
                /\ UNCHANGED period
           ELSE /\ period' = decide_period(b, clock)
                /\ outcome' = [by |-> "app", status |-> "ok",
                               recommendation |-> <<>>]
    /\ pc' = "decided"
    /\ UNCHANGED <<active_habits, parsed, rerun, text, json_text, obj, fenced,
                   habits_all, filtered, rest>>

\* api/generate_report.py:355-366: the window and the period of the record
ScriptPeriod ==
    /\ pc = "bundle"
    /\ runner = "script"
    /\ period' = [start |-> clock - filter_days(bundles[1]), end |-> clock]
    /\ outcome' = [by |-> "script", status |-> "ok", recommendation |-> <<>>]
    /\ pc' = "decided"
    /\ UNCHANGED <<active_habits, parsed, rerun, text, json_text, obj, fenced,
                   habits_all, filtered, rest>>

\* the first ten weeks of 2019
Todays == 366..435

DateStrings ==
    { [day |-> 0, form |-> "none"], [day |-> 0, form |-> "malformed"],
      [day |-> 370, form |-> "padded"], [day |-> 370, form |-> "bare"],
      [day |-> 380, form |-> "padded"] }

PeriodBundles ==
    [type : {"weekly", "monthly", "WEEKLY", "none"},
     start_date : DateStrings, end_date : DateStrings]

InitPeriod ==
    /\ \E b \in PeriodBundles : bundles = <<b>>
    /\ clock \in Todays
    /\ runner \in {"app", "script"}
    /\ period = NoPeriod
    /\ pc = "bundle"
    /\ results = <<>>
    /\ calls = <<>>
    /\ cursor = 0
    /\ frames = <<>>
    /\ active_habits = <<>>
    /\ parsed = [kind |-> "absent", items |-> <<>>]
    /\ outcome = NoOutcome
    /\ rerun = NoRerun
    /\ text = NoText
    /\ json_text = NoText
    /\ obj = NoObj
    /\ fenced = NoFenced
    /\ habits_all = <<>>
    /\ filtered = NoFiltered
    /\ heap = NoHeap
    /\ stats = NoStats
    /\ reply = NoReply
    /\ report = NoReport
    /\ failure = NoFailure

NextPeriod ==
    \/ DecidePeriod
    \/ ScriptPeriod

SpecPeriod == InitPeriod /\ [][NextPeriod]_vars

\* the bundle gives both dates of the period
Supplied(b) ==
    /\ b.start_date.form \in {"padded", "bare"}
    /\ b.end_date.form \in {"padded", "bare"}

\* the window of n days that ends today, counted with or without today
Lookback(p, n) == p.end = clock /\ p.start \in {clock - n, clock - n + 1}

\* C24 (default period): a bundle that supplies both start_date and end_date
\* has exactly these as its period; without an explicit range, type weekly
\* gives the 7-day lookback window and type monthly the 30-day one.
C24_DefaultPeriod ==
    (pc = "decided" /\ outcome.status = "ok") =>
        LET b == bundles[1]
        IN  IF Supplied(b)
            THEN period = [start |-> b.start_date.day, end |-> b.end_date.day]
            ELSE /\ b.type = "weekly" => Lookback(period, WeeklyDays)
                 /\ b.type = "monthly" => Lookback(period, MonthlyDays)

(***************************************************************************)
(* Concurrent requests: _generate_for_user_bundle (app/main.py:284-343)    *)
(* called for several users at once, as FastAPI does with the plain `def`  *)
(* handler of /reports/generate, which it runs in a thread pool.  The      *)
(* function keeps everything in local variables; the module-level names it *)
(* reads (INPUT_DIR, API_URL) are never assigned after import.  frames[i]  *)
(* holds the position of run i and its locals active_habits, response and  *)
(* parsed; results[i] is what run i returned or raised.                    *)
(***************************************************************************)
MaxRuns == 2

\* a module in which the locals of every call live in one shared place
FrameOf_shared(i) == 1

\* the frame that holds the locals of run i: its own
FrameOf(i) == i

NoFrame ==
    [pc |-> "start", active_habits |-> <<>>,
     response |-> [kind |-> "none", recommendation |-> [kind |-> "absent", items |-> <<>>]],
     parsed |-> [kind |-> "absent", items |-> <<>>]]

\* the value of a local variable of run i
Local(i) == frames[FrameOf(i)]

\* run i assigns a local variable and moves on
Assign(i, name, value, to) ==
    [[frames EXCEPT ![FrameOf(i)][name] = value] EXCEPT ![i].pc = to]

\* lines 304-306
RunFilter(i) ==
    /\ frames[i].pc = "start"
    /\ LET act == FilterHabitsByDateRange(bundles[i].habits,
                                          period.start, period.end).habits
       IN  IF act = <<>>
           THEN /\ frames' = Assign(i, "active_habits", act, "done")
                /\ results' = [results EXCEPT ![i] =
                       [by |-> "app", status |-> "nodata", recommendation |-> <<>>]]
           ELSE /\ frames' = Assign(i, "active_habits", act, "prompt")
                /\ UNCHANGED results
    /\ UNCHANGED <<active_habits, parsed, pc, outcome, rerun, text, json_text,
                   obj, fenced, habits_all, period, filtered, heap, stats,
                   reply, report, failure, bundles, calls, cursor, runner,
                   clock>>

\* lines 317-318: the external call for run i's prompt
RunCall(i) ==
    /\ frames[i].pc = "prompt"
    /\ frames' = Assign(i, "response", bundles[i].answer, "called")
    /\ calls' = Append(calls, bundles[i].user_id)
    /\ UNCHANGED <<active_habits, parsed, pc, outcome, rerun, text, json_text,
                   obj, fenced, habits_all, period, filtered, heap, stats,
                   reply, report, failure, bundles, results, cursor, runner,
                   clock>>

\* lines 321-324
RunParse(i) ==
    /\ frames[i].pc = "called"
    /\ IF ParsesAsObject(Local(i).response)
       THEN /\ frames' = Assign(i, "parsed", Local(i).response.recommendation,
                                "parsed")
            /\ UNCHANGED results
       ELSE /\ frames' = [frames EXCEPT ![i].pc = "done"]
            /\ results' = [results EXCEPT ![i] =
                   [by |-> "app", status |-> "error", recommendation |-> <<>>]]
    /\ UNCHANGED <<active_habits, parsed, pc, outcome, rerun, text, json_text,
                   obj, fenced, habits_all, period, filtered, heap, stats,
                   reply, report, failure, bundles, calls, cursor, runner,
                   clock>>

\* lines 327-343
RunPostprocess(i) ==
    /\ frames[i].pc = "parsed"
    /\ frames' = [frames EXCEPT ![i].pc = "done"]
    /\ results' = [results EXCEPT ![i] =
           AppResponse(Local(i).parsed, NoReply, Local(i).active_habits).outcome]
    /\ UNCHANGED <<active_habits, parsed, pc, outcome, rerun, text, json_text,
                   obj, fenced, habits_all, period, filtered, heap, stats,
                   reply, report, failure, bundles, calls, cursor, runner,
                   clock>>

RunIds == <<"h1", "h2", "h3">>

RunLogs ==
    { <<[date |-> <<2>>, completed |-> TRUE]>>,
      <<[date |-> <<1>>, completed |-> FALSE]>> }

RunAnswers ==
    { [kind |-> "json", recommendation |-> [kind |-> "absent", items |-> <<>>]],
      [kind |-> "json",
       recommendation |-> [kind |-> "list",
           items |-> ReplyList(<<[kind |-> "obj", habit_id |-> "x9", name |-> "RUN"]>>)]],
      [kind |-> "garbage", recommendation |-> [kind |-> "absent", items |-> <<>>]] }

\* user i has the i-th habit of the pool
ConcurrentBundles(n) ==
    {[i \in 1..n |->
        [user_id |-> i,
         habits |-> <<WithLog(PoolHabit(RunIds[i]), ls[i])>>,
         answer |-> as[i]]] :
     ls \in [1..n -> RunLogs], as \in [1..n -> RunAnswers]}

InitConcurrent ==
    /\ \E n \in 1..MaxRuns :
          /\ bundles \in ConcurrentBundles(n)
          /\ frames = [i \in 1..n |-> NoFrame]
          /\ results = [i \in 1..n |-> NoOutcome]
    /\ period = [start |-> 2, end |-> 3]
    /\ runner = "app"
    /\ calls = <<>>
    /\ cursor = 0
    /\ clock = 0
    /\ pc = "serving"
    /\ active_habits = <<>>
    /\ parsed = [kind |-> "absent", items |-> <<>>]
    /\ outcome = NoOutcome
    /\ rerun = NoRerun
    /\ text = NoText
    /\ json_text = NoText
    /\ obj = NoObj
    /\ fenced = NoFenced
    /\ habits_all = <<>>
    /\ filtered = NoFiltered
    /\ heap = NoHeap
    /\ stats = NoStats
    /\ reply = NoReply
    /\ report = NoReport
    /\ failure = NoFailure

NextConcurrent ==
    \E i \in 1..Len(bundles) :
        \/ RunFilter(i)
        \/ RunCall(i)
        \/ RunParse(i)
        \/ RunPostprocess(i)

SpecConcurrent == InitConcurrent /\ [][NextConcurrent]_vars

\* what the run of bundle b returns when it is the only one
AloneResult(b) ==
    LET act == FilterHabitsByDateRange(b.habits, period.start, period.end).habits
    IN  IF act = <<>>
        THEN [by |-> "app", status |-> "nodata", recommendation |-> <<>>]
        ELSE IF ~ParsesAsObject(b.answer)
        THEN [by |-> "app", status |-> "error", recommendation |-> <<>>]
        ELSE AppResponse(b.answer.recommendation, NoReply, act).outcome

\* the runs whose frame or result a step has changed
Touched ==
    {j \in 1..Len(bundles) : frames'[j] # frames[j] \/ results'[j] # results[j]}

\* C25 (independence of concurrent runs): in every interleaving a step of
\* one run changes the state of that run only, and every finished run has
\* returned what it returns when run alone with the same bundle and reply.
C25_Independent ==
    /\ [](\A i \in 1..Len(bundles) :
             frames[i].pc = "done" => results[i] = AloneResult(bundles[i]))
    /\ [][Cardinality(Touched) <= 1]_vars

\* the first run has returned its report while the second, with another
\* reply, is between its external call and its parse
C25_Witness ==
    /\ Len(bundles) = 2
    /\ frames[1].pc = "done"
    /\ results[1].status = "ok"
    /\ frames[2].pc = "called"
    /\ bundles[2].answer # bundles[1].answer
    /\ calls = <<2, 1>>

=============================================================================
